---- MODULE Spec2Model ----
(***************************************************************************)
(* HelloAgentsTS: the tool-call tag parser, the parameter coercion and the *)
(* bounded tool loop of SimpleAgent.run (src/agents/simple_agent.ts, the   *)
(* camelCase class), with the Message records of src/core/message.ts and   *)
(* the history of src/core/agent.ts.                                       *)
(*                                                                         *)
(* A text is a sequence of tokens.  The tokens "[TOOL_CALL", ":" and "]"   *)
(* are the three pieces of text the tag pattern tells apart, " " is white  *)
(* space, and every other token is a piece of text with none of these in   *)
(* it.  The empty sequence is the empty string.                            *)
(***************************************************************************)
EXTENDS Integers, Sequences, FiniteSets, TLC

LBR == "[TOOL_CALL"
COLON == ":"
RBR == "]"
SP == " "

\* ------------------------------------------------------------------------
\* Bounds
\* ------------------------------------------------------------------------
MaxTextLen == 6

\* ------------------------------------------------------------------------
\* String helpers (String.prototype.trim, indexOf, replace with a string
\* pattern: the first occurrence only)
\* ------------------------------------------------------------------------
RECURSIVE TrimStart(_)
TrimStart(s) ==
    IF s # <<>> /\ Head(s) = SP THEN TrimStart(Tail(s)) ELSE s

RECURSIVE TrimEnd(_)
TrimEnd(s) ==
    IF s # <<>> /\ s[Len(s)] = SP THEN TrimEnd(SubSeq(s, 1, Len(s) - 1)) ELSE s

Trim(s) == TrimEnd(TrimStart(s))

OccursAt(s, sub, i) ==
    /\ i >= 1
    /\ i + Len(sub) - 1 <= Len(s)
    /\ SubSeq(s, i, i + Len(sub) - 1) = sub

\* 0 when sub does not occur in s, else the first position where it does
IndexOf(s, sub) ==
    IF \E i \in 1..(Len(s) + 1) : OccursAt(s, sub, i)
    THEN CHOOSE i \in 1..(Len(s) + 1) :
            /\ OccursAt(s, sub, i)
            /\ \A j \in 1..(i - 1) : ~OccursAt(s, sub, j)
    ELSE 0

Includes(s, sub) == IndexOf(s, sub) # 0

\* s.replace(sub, "")
ReplaceFirst(s, sub) ==
    LET i == IndexOf(s, sub)
    IN  IF i = 0 THEN s
        ELSE SubSeq(s, 1, i - 1) \o SubSeq(s, i + Len(sub), Len(s))

\* ------------------------------------------------------------------------
\* The tag pattern /\[TOOL_CALL:([^:]+):([^\]]+)\]/g and matchAll
\* ------------------------------------------------------------------------
\* length of the longest run of tokens other than stop that starts at i
RECURSIVE RunLen(_, _, _)
RunLen(t, i, stop) ==
    IF i > Len(t) \/ t[i] = stop THEN 0 ELSE 1 + RunLen(t, i + 1, stop)

NoMatch == [found |-> FALSE]

\* the match of the pattern that starts at position i.  Both groups are
\* greedy and each is followed by the one token it excludes, so the longest
\* run is the only candidate.
MatchAt(t, i) ==
    IF i + 1 <= Len(t) /\ t[i] = LBR /\ t[i + 1] = COLON
    THEN LET n == RunLen(t, i + 2, COLON)
             c == i + 2 + n
         IN  IF n >= 1 /\ c <= Len(t) /\ t[c] = COLON
             THEN LET p == RunLen(t, c + 1, RBR)
                      e == c + 1 + p
                  IN  IF p >= 1 /\ e <= Len(t) /\ t[e] = RBR
                      THEN [found |-> TRUE, index |-> i, last |-> e,
                            groups |-> << SubSeq(t, i, e),
                                          SubSeq(t, i + 2, c - 1),
                                          SubSeq(t, c + 1, e - 1) >>]
                      ELSE NoMatch
             ELSE NoMatch
    ELSE NoMatch

\* text.matchAll(pattern): the non-overlapping matches from position i on
RECURSIVE MatchAll(_, _)
MatchAll(t, i) ==
    IF i > Len(t) THEN <<>>
    ELSE LET m == MatchAt(t, i)
         IN  IF m.found THEN <<m>> \o MatchAll(t, m.last + 1)
             ELSE MatchAll(t, i + 1)

\* ------------------------------------------------------------------------
\* SimpleAgent._parseToolCalls
\* ------------------------------------------------------------------------
\* one ToolCall from one match array: `const [toolName, parameters] = match`
\* binds the first two entries of the array
ToolCallOf(groups) ==
    LET toolName == groups[1]
        parameters == groups[2]
    IN  [toolName |-> Trim(toolName),
         parameters |-> IF parameters # <<>> THEN Trim(parameters) ELSE <<>>,
         original |-> <<LBR, COLON>> \o toolName \o <<COLON>> \o parameters \o <<RBR>>]

_parseToolCalls(text) ==
    LET matches == MatchAll(text, 1)
    IN  [k \in 1..Len(matches) |-> ToolCallOf(matches[k].groups)]

\* the removal of the tags in the tool loop:
\* cleanResponse = cleanResponse.replace(call.original || "", "") per call
RECURSIVE StripCalls(_, _)
StripCalls(cleanResponse, toolCalls) ==
    IF toolCalls = <<>> THEN cleanResponse
    ELSE StripCalls(ReplaceFirst(cleanResponse, Head(toolCalls).original),
                    Tail(toolCalls))

\* ------------------------------------------------------------------------
\* Values of a parameter map: strings, numbers (a number n is held as
\* n * Scale, NaN apart), booleans, null
\* ------------------------------------------------------------------------
Scale == 100

Str(s) == [type |-> "string", s |-> s]
Num(n) == [type |-> "number", nan |-> FALSE, n |-> n]
NaN == [type |-> "number", nan |-> TRUE, n |-> 0]
Bool(b) == [type |-> "boolean", b |-> b]
Null == [type |-> "null"]

QUOTE == "QUOTE"
LBRACE == "{"
RBRACE == "}"
COMMA == ","
EQ == "="
DOT == "."

DigitTokens == {"1", "3", "5"}
DigitValue(d) == IF d = "1" THEN 1 ELSE IF d = "3" THEN 3 ELSE 5

\* the number of digit tokens from position i on
RECURSIVE DigitRun(_, _)
DigitRun(t, i) ==
    IF i <= Len(t) /\ t[i] \in DigitTokens THEN 1 + DigitRun(t, i + 1) ELSE 0

\* the value of the digits t[i .. i+n-1] read as an integer
RECURSIVE IntOf(_, _, _)
IntOf(t, i, n) ==
    IF n = 0 THEN 0 ELSE IntOf(t, i, n - 1) * 10 + DigitValue(t[i + n - 1])

\* the value, times Scale, of the digits t[i .. i+n-1] read after a point
FracOf(t, i, n) ==
    IF n = 0 THEN 0
    ELSE IF n = 1 THEN DigitValue(t[i]) * 10
    ELSE DigitValue(t[i]) * 10 + DigitValue(t[i + 1])

\* the decimal literal at position i: digits, then a point and digits when
\* they follow.  len = 0 when there is none.
DecimalAt(t, i) ==
    LET d == DigitRun(t, i)
        f == IF i + d <= Len(t) /\ t[i + d] = DOT THEN DigitRun(t, i + d + 1) ELSE 0
    IN  IF d = 0 /\ f = 0 THEN [len |-> 0, n |-> 0]
        ELSE IF f = 0 THEN [len |-> d, n |-> IntOf(t, i, d) * Scale]
        ELSE [len |-> d + 1 + f, n |-> IntOf(t, i, d) * Scale + FracOf(t, i + d + 1, f)]

\* parseFloat(string): the longest decimal prefix after leading white space
parseFloat(s) ==
    LET t == TrimStart(s)
        lit == DecimalAt(t, 1)
    IN  IF lit.len = 0 THEN NaN ELSE Num(lit.n)

\* parseInt(string, 10): the longest digit prefix after leading white space
parseInt(s) ==
    LET t == TrimStart(s)
        d == DigitRun(t, 1)
    IN  IF d = 0 THEN NaN ELSE Num(IntOf(t, 1, d) * Scale)

\* String.prototype.toLowerCase on the tokens that have capitals
LowerToken(x) ==
    IF x = "TRUE" THEN "true" ELSE IF x = "Yes" THEN "yes"
    ELSE IF x = "Number" THEN "number"
    ELSE IF x = "OLLAMA" THEN "ollama" ELSE IF x = "Local" THEN "local"
    ELSE IF x = "OpenAI" THEN "openai"
    ELSE IF x = "API.OPENAI.COM" THEN "api.openai.com" ELSE x

toLowerCase(s) == [i \in 1..Len(s) |-> LowerToken(s[i])]

\* Boolean(value) of a value that is not a string
ToBoolean(value) ==
    IF value.type = "boolean" THEN value.b
    ELSE IF value.type = "number" THEN ~value.nan /\ value.n # 0
    ELSE FALSE

\* ------------------------------------------------------------------------
\* Parameter maps: the entries of an object in insertion order
\* ------------------------------------------------------------------------
HasKey(dict, key) == \E i \in 1..Len(dict) : dict[i].k = key

Get(dict, key) == dict[CHOOSE i \in 1..Len(dict) : dict[i].k = key].v

\* dict[key] = value
Put(dict, key, value) ==
    IF HasKey(dict, key)
    THEN [i \in 1..Len(dict) |-> IF dict[i].k = key THEN [k |-> key, v |-> value] ELSE dict[i]]
    ELSE Append(dict, [k |-> key, v |-> value])

\* delete dict[key]
Delete(dict, key) == SelectSeq(dict, LAMBDA e : e.k # key)

\* ------------------------------------------------------------------------
\* JSON.parse of the text of an object whose values are strings, numbers,
\* true, false or null
\* ------------------------------------------------------------------------
RECURSIVE SkipWs(_, _)
SkipWs(t, i) == IF i <= Len(t) /\ t[i] = SP THEN SkipWs(t, i + 1) ELSE i

JsonFail == [ok |-> FALSE]

\* a string literal at position i
JsonString(t, i) ==
    IF i <= Len(t) /\ t[i] = QUOTE
    THEN LET n == RunLen(t, i + 1, QUOTE)
         IN  IF i + 1 + n <= Len(t)
             THEN [ok |-> TRUE, s |-> SubSeq(t, i + 1, i + n), next |-> i + n + 2]
             ELSE JsonFail
    ELSE JsonFail

\* a value at position i
JsonValue(t, i) ==
    IF i > Len(t) THEN JsonFail
    ELSE IF t[i] = QUOTE
    THEN LET str == JsonString(t, i)
         IN  IF str.ok THEN [ok |-> TRUE, v |-> Str(str.s), next |-> str.next] ELSE JsonFail
    ELSE IF t[i] \in DigitTokens
    THEN LET lit == DecimalAt(t, i)
         IN  IF i + lit.len <= Len(t) /\ t[i + lit.len] = DOT THEN JsonFail
             ELSE [ok |-> TRUE, v |-> Num(lit.n), next |-> i + lit.len]
    ELSE IF t[i] = "true" THEN [ok |-> TRUE, v |-> Bool(TRUE), next |-> i + 1]
    ELSE IF t[i] = "false" THEN [ok |-> TRUE, v |-> Bool(FALSE), next |-> i + 1]
    ELSE IF t[i] = "null" THEN [ok |-> TRUE, v |-> Null, next |-> i + 1]
    ELSE JsonFail

\* the members from position i on, up to the closing brace and the end of
\* the text; dict holds the members read so far
RECURSIVE JsonMembers(_, _, _)
JsonMembers(t, i, dict) ==
    LET key == JsonString(t, SkipWs(t, i))
    IN  IF ~key.ok THEN JsonFail
        ELSE LET c == SkipWs(t, key.next)
             IN  IF c > Len(t) \/ t[c] # COLON THEN JsonFail
                 ELSE LET val == JsonValue(t, SkipWs(t, c + 1))
                      IN  IF ~val.ok THEN JsonFail
                          ELSE LET e == SkipWs(t, val.next)
                                   next == Put(dict, key.s, val.v)
                               IN  IF e > Len(t) THEN JsonFail
                                   ELSE IF t[e] = COMMA THEN JsonMembers(t, e + 1, next)
                                   ELSE IF t[e] = RBRACE /\ SkipWs(t, e + 1) > Len(t)
                                   THEN [ok |-> TRUE, dict |-> next]
                                   ELSE JsonFail

JsonParse(text) ==
    LET b == SkipWs(text, 1)
    IN  IF b > Len(text) \/ text[b] # LBRACE THEN JsonFail
        ELSE LET m == SkipWs(text, b + 1)
             IN  IF m <= Len(text) /\ text[m] = RBRACE /\ SkipWs(text, m + 1) > Len(text)
                 THEN [ok |-> TRUE, dict |-> <<>>]
                 ELSE JsonMembers(text, b + 1, <<>>)

\* ------------------------------------------------------------------------
\* SimpleAgent._convertParameterTypes
\* ------------------------------------------------------------------------
\* what this.toolRegistry.getTool(toolName) and the tool's getParameters give:
\* no registry, no such tool, or a tool whose getter is absent, throws,
\* returns something that is no array, or returns the declarations
NoRegistryLookup == [registry |-> FALSE, tool |-> FALSE, getter |-> "absent", params |-> <<>>]
NoToolLookup == [registry |-> TRUE, tool |-> FALSE, getter |-> "absent", params |-> <<>>]
ToolLookup(getter, params) ==
    [registry |-> TRUE, tool |-> TRUE, getter |-> getter, params |-> params]

ParamTypeOfLast(toolParams, key) ==
    IF toolParams = <<>> THEN <<>> ELSE toLowerCase(toolParams[Len(toolParams)].type)

\* paramTypes[key]: the lower-cased type of the last declaration of key, or
\* the empty string when key is not declared
RECURSIVE ParamType(_, _)
ParamType(toolParams, key) ==
    IF toolParams = <<>> THEN <<>>
    ELSE LET p == toolParams[Len(toolParams)]
         IN  IF p.name = key THEN toLowerCase(p.type)
             ELSE ParamType(SubSeq(toolParams, 1, Len(toolParams) - 1), key)

\* the value stored for one entry whose key is declared with targetType
ConvertValue(targetType, value) ==
    IF targetType = <<"number">> \/ targetType = <<"integer">>
    THEN IF value.type = "string"
         THEN IF targetType = <<"number">> THEN parseFloat(value.s) ELSE parseInt(value.s)
         ELSE value
    ELSE IF targetType = <<"boolean">>
    THEN IF value.type = "string"
         THEN Bool(toLowerCase(value.s) \in {<<"true">>, <<"1">>, <<"yes">>})
         ELSE Bool(ToBoolean(value))
    ELSE value

_convertParameterTypes(lookup, paramDict) ==
    IF ~lookup.registry THEN paramDict
    ELSE IF ~lookup.tool THEN paramDict
    ELSE IF lookup.getter # "array" THEN paramDict
    ELSE [i \in 1..Len(paramDict) |->
            LET targetType == ParamType(lookup.params, paramDict[i].k)
            IN  IF targetType = <<>> THEN paramDict[i]
                ELSE [k |-> paramDict[i].k, v |-> ConvertValue(targetType, paramDict[i].v)]]

\* ------------------------------------------------------------------------
\* SimpleAgent._inferAction, _inferSimpleParameters, _parseToolParameters
\* ------------------------------------------------------------------------
ACTION_KEY == <<"action">>
QUERY_KEY == <<"query">>
CONTENT_KEY == <<"content">>

RenameKeepingKey(dict, action, from, to) ==
    Put(Put(dict, ACTION_KEY, Str(<<action>>)), to, Get(dict, from))

\* dict.action = action; dict[to] = dict[from]; delete dict[from]
Rename(dict, action, from, to) ==
    Delete(Put(Put(dict, ACTION_KEY, Str(<<action>>)), to, Get(dict, from)), from)

_inferAction(toolName, paramDict) ==
    IF toolName = <<"memory">>
    THEN IF HasKey(paramDict, <<"recall">>)
         THEN Rename(paramDict, "search", <<"recall">>, QUERY_KEY)
         ELSE IF HasKey(paramDict, <<"store">>)
         THEN Rename(paramDict, "add", <<"store">>, CONTENT_KEY)
         ELSE IF HasKey(paramDict, QUERY_KEY)
         THEN Put(paramDict, ACTION_KEY, Str(<<"search">>))
         ELSE IF HasKey(paramDict, CONTENT_KEY)
         THEN Put(paramDict, ACTION_KEY, Str(<<"add">>))
         ELSE paramDict
    ELSE IF toolName = <<"rag">>
    THEN IF HasKey(paramDict, <<"search">>)
         THEN Rename(paramDict, "search", <<"search">>, QUERY_KEY)
         ELSE IF HasKey(paramDict, QUERY_KEY)
         THEN Put(paramDict, ACTION_KEY, Str(<<"search">>))
         ELSE IF HasKey(paramDict, <<"text">>)
         THEN Put(paramDict, ACTION_KEY, Str(<<"add_text">>))
         ELSE paramDict
    ELSE paramDict

_inferSimpleParameters(toolName, parameters) ==
    IF toolName = <<"rag">>
    THEN << [k |-> ACTION_KEY, v |-> Str(<<"search">>)], [k |-> QUERY_KEY, v |-> Str(parameters)] >>
    ELSE IF toolName = <<"memory">>
    THEN << [k |-> ACTION_KEY, v |-> Str(<<"search">>)], [k |-> QUERY_KEY, v |-> Str(parameters)] >>
    ELSE << [k |-> <<"input">>, v |-> Str(parameters)] >>

\* s.split(sep)
RECURSIVE Split(_, _)
Split(s, sep) ==
    LET n == RunLen(s, 1, sep)
    IN  IF n = Len(s) THEN <<s>>
        ELSE <<SubSeq(s, 1, n)>> \o Split(SubSeq(s, n + 2, Len(s)), sep)

\* s.split(sep, limit): at most limit pieces, the rest dropped
SplitLimit(s, sep, limit) ==
    LET pieces == Split(s, sep)
    IN  SubSeq(pieces, 1, IF Len(pieces) < limit THEN Len(pieces) ELSE limit)

\* const [key, value] = pair.split("=", 1); the entry is stored when both
\* are defined
AddPair(paramDict, pair) ==
    LET pieces == SplitLimit(pair, EQ, 1)
    IN  IF Len(pieces) >= 1 /\ Len(pieces) >= 2
        THEN Put(paramDict, Trim(pieces[1]), Str(Trim(pieces[2])))
        ELSE paramDict

RECURSIVE AddPairs(_, _)
AddPairs(paramDict, pairs) ==
    IF pairs = <<>> THEN paramDict
    ELSE AddPairs(IF Includes(Head(pairs), <<EQ>>) THEN AddPair(paramDict, Head(pairs))
                  ELSE paramDict,
                  Tail(pairs))

WithActionAlways(toolName, paramDict) == _inferAction(toolName, paramDict)

\* the action is inferred when the map has no action key
WithAction(toolName, paramDict) ==
    IF ~HasKey(paramDict, ACTION_KEY) THEN _inferAction(toolName, paramDict) ELSE paramDict

_parseToolParameters(lookup, toolName, parameters) ==
    LET trimmed == Trim(parameters)
        json == IF trimmed # <<>> /\ Head(trimmed) = LBRACE
                THEN JsonParse(parameters) ELSE JsonFail
    IN  IF json.ok
        THEN WithAction(toolName, _convertParameterTypes(lookup, json.dict))
        ELSE IF Includes(parameters, <<EQ>>)
        THEN LET paramDict == IF Includes(parameters, <<COMMA>>)
                              THEN AddPairs(<<>>, Split(parameters, COMMA))
                              ELSE AddPair(<<>>, parameters)
             IN  WithAction(toolName, _convertParameterTypes(lookup, paramDict))
        ELSE _inferSimpleParameters(toolName, parameters)

\* ------------------------------------------------------------------------
\* State
\* ------------------------------------------------------------------------
\* arg, ret: the argument and the results of a function applied on its own
\* (the parser, the parameter coercion)
VARIABLES arg, ret

\* the agent: which Message class and which HelloAgentsLLM class the build
\* holds, the constructor's
\* registry and flag, and the history of src/core/agent.ts
VARIABLES messageDraft, llmDraft, toolRegistry, enableToolCalling, _history

\* one call of SimpleAgent.run: where it is suspended, its parameters and
\* its locals
VARIABLES pc, inputText, maxToolIterations, currentIteration, finalResponse,
          messages, currentMessages

\* bookkeeping of the turn: the model calls issued, one entry per pass of the
\* loop, the history when the turn began, the rejection, the turns begun
VARIABLES modelCalls, iterLog, historyAtStart, rejection, turns

\* the HelloAgentsLLM of the process: process.env, the instance the constructor
\* made (or its failure), and the one call of think on it
VARIABLES env, llm, think

\* the calls of run that are suspended at an await while another call runs:
\* the locals of each
VARIABLE calls

fnVars == <<arg, ret>>
agentVars ==
    <<messageDraft, llmDraft, toolRegistry, enableToolCalling, env, llm, think, calls>>
turnVars == <<pc, inputText, maxToolIterations, currentIteration, finalResponse,
              messages, currentMessages, modelCalls, iterLog, historyAtStart,
              rejection, turns>>
vars == <<fnVars, agentVars, _history, turnVars>>

\* ------------------------------------------------------------------------
\* The parser applied to bounded texts
\* ------------------------------------------------------------------------
Alphabet == {LBR, COLON, RBR, SP, "a"}

RECURSIVE SeqsUpTo(_, _)
SeqsUpTo(S, n) ==
    IF n = 0 THEN {<<>>}
    ELSE LET shorter == SeqsUpTo(S, n - 1)
         IN  shorter \cup {Append(s, x) : s \in {q \in shorter : Len(q) = n - 1}, x \in S}

TwoTagExample ==
    <<"pre", SP, LBR, COLON, "search", COLON, "Python", RBR, SP, "mid", SP,
      LBR, COLON, "memory", COLON, "recall", EQ, "cats", RBR, SP, "post">>

\* the two examples of the system prompt
PromptExampleSearch == <<LBR, COLON, "search", COLON, "Python", RBR>>
PromptExampleMemory == <<LBR, COLON, "memory", COLON, "recall", EQ, "cats", RBR>>

ParseTexts ==
    SeqsUpTo(Alphabet, MaxTextLen)
        \cup {TwoTagExample, PromptExampleSearch, PromptExampleMemory}

\* ------------------------------------------------------------------------
\* Bounds of the turns
\* ------------------------------------------------------------------------
MaxTurns == 2
MaxIterations == 2

\* ------------------------------------------------------------------------
\* Message (src/core/message.ts defines the class twice, with the first two
\* constructor parameters in opposite orders; a build holds one of them)
\* ------------------------------------------------------------------------
USER == <<"user">>
ASSISTANT == <<"assistant">>
SYSTEM == <<"system">>
TOOL == <<"tool">>

MessageDrafts == {"roleFirst", "contentFirst"}

\* new Message(a, b)
Message(draft, a, b) ==
    IF draft = "roleFirst"
    THEN [role |-> a, content |-> b]
    ELSE [content |-> a, role |-> b]

\* Agent.addMessage
addMessage(history, message) == Append(history, message)

\* ------------------------------------------------------------------------
\* HelloAgentsLLM.invoke (src/core/llm.ts and the unnamed draft of the class)
\* ------------------------------------------------------------------------
LLMDrafts == {"core", "unnamed"}

\* what the chat-completion client does with one request: it answers with a
\* content, or it throws
ClientThrows == [kind |-> "throws", message |-> <<"timeout">>]

\* invoke catches whatever the client throws and throws one exception in its
\* place; the unnamed draft also throws on an empty content, inside the same
\* try block
invoke(draft, result) ==
    IF result.kind = "throws"
    THEN [ok |-> FALSE,
          error |-> [name |-> "HelloAgentsException",
                     message |-> <<"LLM call failed: ">> \o result.message]]
    ELSE IF draft = "unnamed" /\ result.content = <<>>
    THEN [ok |-> FALSE,
          error |-> [name |-> "HelloAgentsException",
                     message |-> <<"LLM call failed: ", "empty response">>]]
    ELSE [ok |-> TRUE, content |-> result.content]

\* ------------------------------------------------------------------------
\* The tool registry (an outside collaborator): absent, or a set of tool
\* names of which some throw when run
\* ------------------------------------------------------------------------
NoRegistry == [present |-> FALSE, tools |-> {}, throwing |-> {}]

Registries ==
    { NoRegistry,
      [present |-> TRUE, tools |-> {<<"search">>}, throwing |-> {}],
      [present |-> TRUE, tools |-> {<<"search">>, <<"memory">>},
       throwing |-> {<<"memory">>}] }

ToolOutput == <<"output">>
ToolError == <<"boom">>

\* SimpleAgent._executeToolCall
_executeToolCall(registry, toolName, parameters) ==
    IF ~registry.present
    THEN <<"X no registry">>
    ELSE IF toolName \notin registry.tools
    THEN <<"X tool not found '">> \o toolName \o <<"'">>
    ELSE IF toolName \in registry.throwing
    THEN <<"X tool call failed:">> \o ToolError
    ELSE <<"tool ">> \o toolName \o <<" result: ">> \o ToolOutput

\* the for loop over the calls of one response: the results, in order
ExecuteCalls(registry, toolCalls) ==
    [k \in 1..Len(toolCalls) |->
        _executeToolCall(registry, toolCalls[k].toolName, toolCalls[k].parameters)]

\* toolResults.join(separator)
RECURSIVE Join(_)
Join(toolResults) ==
    IF toolResults = <<>> THEN <<>>
    ELSE IF Len(toolResults) = 1 THEN Head(toolResults)
    ELSE Head(toolResults) \o <<"; ">> \o Join(Tail(toolResults))

\* the content of the user message that carries the results
ObservationContent(toolResults) ==
    <<"tool results: ">> \o Join(toolResults) \o <<"; answer from these results">>

\* ------------------------------------------------------------------------
\* SimpleAgent.run
\* ------------------------------------------------------------------------
\* SimpleAgent._getEnhancedSystemPrompt
_getEnhancedSystemPrompt(enabled, registry) ==
    IF ~enabled \/ ~registry.present \/ registry.tools = {}
    THEN <<"base prompt">>
    ELSE <<"base prompt", "tool section", "e.g. ">> \o PromptExampleSearch
            \o <<" or ">> \o PromptExampleMemory

\* the history as chat messages, records of role "tool" left out
RECURSIVE HistoryMessages(_)
HistoryMessages(history) ==
    IF history = <<>> THEN <<>>
    ELSE IF Head(history).role = TOOL THEN HistoryMessages(Tail(history))
    ELSE <<[role |-> Head(history).role, content |-> Head(history).content]>>
            \o HistoryMessages(Tail(history))

\* the message list run builds before its first model call
BuildMessages(enabled, registry, history, input) ==
    <<[role |-> SYSTEM, content |-> _getEnhancedSystemPrompt(enabled, registry)]>>
        \o HistoryMessages(history)
        \o <<[role |-> USER, content |-> input]>>

LoopContinuesInclusive(iteration, max) == iteration <= max

\* while (currentIteration < maxToolIterations)
LoopContinues(iteration, max) == iteration < max

\* if (currentIteration >= maxToolIterations && !finalResponse)
NeedsFinalCall(iteration, max, final) == iteration >= max /\ final = <<>>

\* if (!toolCalls.length): the branch that runs the tools
TakesToolBranch(toolCalls) == ~(Len(toolCalls) # 0)

SaveTurnAssistantFirst(draft, history, input, final) ==
    addMessage(addMessage(history, Message(draft, ASSISTANT, final)),
               Message(draft, USER, input))

\* the two addMessage calls that end a turn
SaveTurn(draft, history, input, final) ==
    addMessage(addMessage(history, Message(draft, USER, input)),
               Message(draft, ASSISTANT, final))

InputTexts == {<<"hello">>, TOOL}

PlainResponse == <<"fine">>
EmptyResponse == <<>>
Responses ==
    {PlainResponse, EmptyResponse, PromptExampleSearch, PromptExampleMemory,
     TwoTagExample}

ClientResults == {[kind |-> "content", content |-> c] : c \in Responses} \cup {ClientThrows}

\* the contents invoke can return
Returned(draft) ==
    {invoke(draft, r).content : r \in {q \in ClientResults : invoke(draft, q).ok}}

NoRejection == [name |-> "none", message |-> <<>>]

\* ------------------------------------------------------------------------
\* HelloAgentsLLM: strings of the configuration
\* ------------------------------------------------------------------------
\* a value that is absent (an option not passed, a variable not set)
Undefined == <<"undefined">>

\* the truthiness of a string or undefined
Truthy(v) == v # Undefined /\ v # <<>>

\* a || b
Or(a, b) == IF Truthy(a) THEN a ELSE b

\* the number of characters a token stands for
CharLen(token) ==
    IF token \in {"ms-", "sk-", "key"} THEN 3
    ELSE IF token = DOT THEN 1
    ELSE IF token = "body48" THEN 48
    ELSE IF token = "body30" THEN 30
    ELSE IF token = "body17" THEN 17
    ELSE 6

\* s.length
RECURSIVE Length(_)
Length(s) == IF s = <<>> THEN 0 ELSE CharLen(Head(s)) + Length(Tail(s))

\* s.startsWith(prefix), s.endsWith(suffix) for a prefix or suffix of one token
startsWith(s, prefix) == s # <<>> /\ s[1] = prefix
endsWith(s, suffix) == s # <<>> /\ s[Len(s)] = suffix

\* s.slice(-n).includes("."): a point among the last n characters
SliceIncludesDot(s, n) ==
    \E i \in 1..Len(s) : s[i] = DOT /\ Length(SubSeq(s, i + 1, Len(s))) < n

\* the texts that occur inside a token of a URL
Fragments(token) ==
    {token} \cup
    (IF token = "api-inference.modelscope.cn" THEN {"modelscope"}
     ELSE IF token = "api.deepseek.com" THEN {"deepseek"}
     ELSE IF token = "dashscope.aliyuncs.com" THEN {"dashscope"}
     ELSE IF token = "api.moonshot.cn" THEN {"moonshot"}
     ELSE IF token = "open.bigmodel.cn" THEN {"bigmodel"}
     ELSE IF token = "/ollama" THEN {"ollama"}
     ELSE IF token = "/vllm" THEN {"vllm"}
     ELSE {})

\* s.includes(needle) for a needle that lies inside one token
IncludesText(s, needle) == \E i \in 1..Len(s) : needle \in Fragments(s[i])

\* ------------------------------------------------------------------------
\* process.env
\* ------------------------------------------------------------------------
VendorVariables ==
    <<"OPENAI_API_KEY", "DEEPSEEK_API_KEY", "DASHSCOPE_API_KEY", "MODELSCOPE_API_KEY",
      "KIMI_API_KEY", "MOONSHOT_API_KEY", "ZHIPU_API_KEY", "GLM_API_KEY",
      "OLLAMA_API_KEY", "OLLAMA_HOST", "VLLM_API_KEY", "VLLM_HOST">>

GenericVariables == {"LLM_API_KEY", "LLM_BASE_URL", "LLM_MODEL_ID", "LLM_TIMEOUT"}

EnvNames == {VendorVariables[i] : i \in 1..Len(VendorVariables)} \cup GenericVariables

EmptyEnv == [name \in EnvNames |-> Undefined]

\* ------------------------------------------------------------------------
\* HelloAgentsLLM._autoDetectProvider
\* ------------------------------------------------------------------------
Undecided == <<>>

\* 1. the provider-specific variables, with the vendor variables scanned in
\* another order
DetectByEnvDeepseekFirst(processEnv) ==
    IF Truthy(processEnv["DEEPSEEK_API_KEY"]) THEN <<"deepseek">>
    ELSE IF Truthy(processEnv["OPENAI_API_KEY"]) THEN <<"openai">>
    ELSE IF Truthy(processEnv["DASHSCOPE_API_KEY"]) THEN <<"qwen">>
    ELSE IF Truthy(processEnv["MODELSCOPE_API_KEY"]) THEN <<"modelscope">>
    ELSE IF Truthy(processEnv["KIMI_API_KEY"]) \/ Truthy(processEnv["MOONSHOT_API_KEY"])
    THEN <<"kimi">>
    ELSE IF Truthy(processEnv["ZHIPU_API_KEY"]) \/ Truthy(processEnv["GLM_API_KEY"])
    THEN <<"zhipu">>
    ELSE IF Truthy(processEnv["OLLAMA_API_KEY"]) \/ Truthy(processEnv["OLLAMA_HOST"])
    THEN <<"ollama">>
    ELSE IF Truthy(processEnv["VLLM_API_KEY"]) \/ Truthy(processEnv["VLLM_HOST"])
    THEN <<"vllm">>
    ELSE Undecided

\* 1. the provider-specific variables
DetectByEnv(processEnv) ==
    IF Truthy(processEnv["OPENAI_API_KEY"]) THEN <<"openai">>
    ELSE IF Truthy(processEnv["DEEPSEEK_API_KEY"]) THEN <<"deepseek">>
    ELSE IF Truthy(processEnv["DASHSCOPE_API_KEY"]) THEN <<"qwen">>
    ELSE IF Truthy(processEnv["MODELSCOPE_API_KEY"]) THEN <<"modelscope">>
    ELSE IF Truthy(processEnv["KIMI_API_KEY"]) \/ Truthy(processEnv["MOONSHOT_API_KEY"])
    THEN <<"kimi">>
    ELSE IF Truthy(processEnv["ZHIPU_API_KEY"]) \/ Truthy(processEnv["GLM_API_KEY"])
    THEN <<"zhipu">>
    ELSE IF Truthy(processEnv["OLLAMA_API_KEY"]) \/ Truthy(processEnv["OLLAMA_HOST"])
    THEN <<"ollama">>
    ELSE IF Truthy(processEnv["VLLM_API_KEY"]) \/ Truthy(processEnv["VLLM_HOST"])
    THEN <<"vllm">>
    ELSE Undecided

SK_KEY_LENGTH == 50
KEY_TAIL_LENGTH == 20

\* 2. the shape of the API key, as each class HelloAgentsLLM reads it
DetectByKey(draft, actualApiKey) ==
    IF ~Truthy(actualApiKey) THEN Undecided
    ELSE IF startsWith(actualApiKey, "ms-") THEN <<"modelscope">>
    ELSE IF toLowerCase(actualApiKey) = <<"ollama">> THEN <<"ollama">>
    ELSE IF toLowerCase(actualApiKey) = <<"vllm">> THEN <<"vllm">>
    ELSE IF toLowerCase(actualApiKey) = <<"local">> THEN <<"local">>
    ELSE IF draft = "core"
    THEN IF startsWith(actualApiKey, "sk-") /\ Length(actualApiKey) > SK_KEY_LENGTH
         THEN <<"openai">>
         ELSE IF DOT \in {actualApiKey[i] : i \in 1..Len(actualApiKey)}
                 /\ SliceIncludesDot(actualApiKey, KEY_TAIL_LENGTH)
         THEN <<"zhipu">>
         ELSE Undecided
    ELSE IF endsWith(toLowerCase(actualApiKey), DOT)
            /\ SliceIncludesDot(toLowerCase(actualApiKey), KEY_TAIL_LENGTH)
    THEN <<"zhipu">>
    ELSE Undecided

\* 3. the base URL
DetectByUrl(actualBaseUrl, actualApiKey) ==
    IF ~Truthy(actualBaseUrl) THEN Undecided
    ELSE LET baseUrlLower == toLowerCase(actualBaseUrl)
             has(needle) == IncludesText(baseUrlLower, needle)
         IN  IF has("api.openai.com") THEN <<"openai">>
             ELSE IF has("api.deepseek.com") THEN <<"deepseek">>
             ELSE IF has("dashscope.aliyuncs.com") THEN <<"qwen">>
             ELSE IF has("api-inference.modelscope.cn") THEN <<"modelscope">>
             ELSE IF has("api.moonshot.cn") THEN <<"kimi">>
             ELSE IF has("open.bigmodel.cn") THEN <<"zhipu">>
             ELSE IF has("localhost") \/ has("127.0.0.1")
             THEN IF has(":11434") \/ has("ollama") THEN <<"ollama">>
                  ELSE IF has(":8000") /\ has("vllm") THEN <<"vllm">>
                  ELSE IF has(":8080") \/ has(":7860") THEN <<"local">>
                  ELSE IF Truthy(actualApiKey) /\ toLowerCase(actualApiKey) = <<"ollama">>
                  THEN <<"ollama">>
                  ELSE IF Truthy(actualApiKey) /\ toLowerCase(actualApiKey) = <<"vllm">>
                  THEN <<"vllm">>
                  ELSE <<"local">>
             ELSE IF \E port \in {":8080", ":7860", ":5000"} : has(port) THEN <<"local">>
             ELSE Undecided

_autoDetectProviderUrlFirst(draft, processEnv, apiKey, baseUrl) ==
    LET actualApiKey == Or(apiKey, processEnv["LLM_API_KEY"])
        actualBaseUrl == Or(baseUrl, processEnv["LLM_BASE_URL"])
    IN  Or(DetectByEnv(processEnv),
           Or(DetectByUrl(actualBaseUrl, actualApiKey),
              Or(DetectByKey(draft, actualApiKey), <<"auto">>)))

_autoDetectProvider(draft, processEnv, apiKey, baseUrl) ==
    LET actualApiKey == Or(apiKey, processEnv["LLM_API_KEY"])
        actualBaseUrl == Or(baseUrl, processEnv["LLM_BASE_URL"])
    IN  Or(DetectByEnv(processEnv),
           Or(DetectByKey(draft, actualApiKey),
              Or(DetectByUrl(actualBaseUrl, actualApiKey), <<"auto">>)))

\* ------------------------------------------------------------------------
\* HelloAgentsLLM._resolveCredentials, _getDefaultModel, constructor
\* ------------------------------------------------------------------------
HTTPS == "https://"
HTTP == "http://"

DefaultBaseUrlOpenai(provider) == <<HTTPS, "api.openai.com", "/v1">>

\* the last alternative of the base URL in the provider's case of the switch
DefaultBaseUrl(provider) ==
    IF provider = <<"openai">> THEN <<HTTPS, "api.openai.com", "/v1">>
    ELSE IF provider = <<"deepseek">> THEN <<HTTPS, "api.deepseek.com">>
    ELSE IF provider = <<"qwen">> THEN <<HTTPS, "dashscope.aliyuncs.com", "/compatible-mode/v1">>
    ELSE IF provider = <<"modelscope">> THEN <<HTTPS, "api-inference.modelscope.cn", "/v1/">>
    ELSE IF provider = <<"kimi">> THEN <<HTTPS, "api.moonshot.cn", "/v1">>
    ELSE IF provider = <<"zhipu">> THEN <<HTTPS, "open.bigmodel.cn", "/api/paas/v4">>
    ELSE IF provider = <<"ollama">> THEN <<HTTP, "localhost", ":11434", "/v1">>
    ELSE IF provider = <<"vllm">> THEN <<HTTP, "localhost", ":8000", "/v1">>
    ELSE IF provider = <<"local">> THEN <<HTTP, "localhost", ":8000", "/v1">>
    ELSE <<>>

DefaultApiKeyOllamaOnly(provider) ==
    IF provider = <<"ollama">> THEN provider ELSE <<>>

\* the last alternative of the API key in the provider's case of the switch
DefaultApiKey(provider) ==
    IF provider \in {<<"ollama">>, <<"vllm">>, <<"local">>} THEN provider ELSE <<>>

\* the provider's own variables, in the order the switch tries them
ProviderKeyVariables(provider) ==
    IF provider = <<"openai">> THEN <<"OPENAI_API_KEY">>
    ELSE IF provider = <<"deepseek">> THEN <<"DEEPSEEK_API_KEY">>
    ELSE IF provider = <<"qwen">> THEN <<"DASHSCOPE_API_KEY">>
    ELSE IF provider = <<"modelscope">> THEN <<"MODELSCOPE_API_KEY">>
    ELSE IF provider = <<"kimi">> THEN <<"KIMI_API_KEY", "MOONSHOT_API_KEY">>
    ELSE IF provider = <<"zhipu">> THEN <<"ZHIPU_API_KEY", "GLM_API_KEY">>
    ELSE IF provider = <<"ollama">> THEN <<"OLLAMA_API_KEY">>
    ELSE IF provider = <<"vllm">> THEN <<"VLLM_API_KEY">>
    ELSE <<>>

ProviderHostVariables(provider) ==
    IF provider = <<"ollama">> THEN <<"OLLAMA_HOST">>
    ELSE IF provider = <<"vllm">> THEN <<"VLLM_HOST">>
    ELSE <<>>

\* processEnv[names[1]] || processEnv[names[2]] || ... || last
RECURSIVE FirstOf(_, _, _)
FirstOf(processEnv, names, last) ==
    IF names = <<>> THEN last
    ELSE Or(processEnv[Head(names)], FirstOf(processEnv, Tail(names), last))

_resolveCredentials(provider, processEnv, apiKey, baseUrl) ==
    << Or(apiKey, FirstOf(processEnv, ProviderKeyVariables(provider) \o <<"LLM_API_KEY">>,
                          DefaultApiKey(provider))),
       Or(baseUrl, FirstOf(processEnv, ProviderHostVariables(provider) \o <<"LLM_BASE_URL">>,
                           DefaultBaseUrl(provider))) >>

CustomCredentialsWithDefault(processEnv, apiKey, baseUrl) ==
    << Or(apiKey, Or(processEnv["LLM_API_KEY"], <<>>)),
       Or(baseUrl, Or(processEnv["LLM_BASE_URL"], DefaultBaseUrl(<<"openai">>))) >>

\* the credentials of the branch requestedProvider === "custom".  The class
\* of src/core/llm.ts ends the chain with "", the other class leaves the
\* field undefined; both are falsy.
CustomCredentials(processEnv, apiKey, baseUrl) ==
    << Or(apiKey, Or(processEnv["LLM_API_KEY"], <<>>)),
       Or(baseUrl, Or(processEnv["LLM_BASE_URL"], <<>>)) >>

GPT35 == <<"gpt-3.5-turbo">>

\* the hostname-substring table of the default case of _getDefaultModel
ModelOfUrl(baseUrl) ==
    LET baseUrlLower == toLowerCase(baseUrl)
        has(needle) == IncludesText(baseUrlLower, needle)
    IN  IF has("modelscope") THEN <<"Qwen/Qwen2.5-72B-Instruct">>
        ELSE IF has("deepseek") THEN <<"deepseek-chat">>
        ELSE IF has("dashscope") THEN <<"qwen-plus">>
        ELSE IF has("moonshot") THEN <<"moonshot-v1-8k">>
        ELSE IF has("bigmodel") THEN <<"glm-4">>
        ELSE IF has("ollama") \/ has(":11434") THEN <<"llama3.2">>
        ELSE IF has(":8000") \/ has("vllm") THEN <<"meta-llama/Llama-2-7b-chat-hf">>
        ELSE IF has("localhost") \/ has("127.0.0.1") THEN <<"local-model">>
        ELSE GPT35

_getDefaultModel(provider, processEnv, thisModel) ==
    IF provider = <<"openai">> THEN GPT35
    ELSE IF provider = <<"deepseek">> THEN <<"deepseek-chat">>
    ELSE IF provider = <<"qwen">> THEN <<"qwen-plus">>
    ELSE IF provider = <<"modelscope">> THEN <<"Qwen/Qwen2.5-72B-Instruct">>
    ELSE IF provider = <<"kimi">> THEN <<"moonshot-v1-8k">>
    ELSE IF provider = <<"zhipu">> THEN <<"glm-4">>
    ELSE IF provider = <<"ollama">> THEN <<"llama3.2">>
    ELSE IF provider = <<"vllm">> THEN <<"meta-llama/Llama-2-7b-chat-hf">>
    ELSE IF provider = <<"local">> THEN <<"local-model">>
    ELSE IF provider = <<"custom">> THEN Or(thisModel, GPT35)
    ELSE ModelOfUrl(Or(processEnv["LLM_BASE_URL"], <<>>))

ResolveModelEnvFirst(processEnv, model, default) ==
    Or(processEnv["LLM_MODEL_ID"], Or(model, default))

\* model || process.env.LLM_MODEL_ID || this._getDefaultModel()
ResolveModel(processEnv, model, default) ==
    Or(model, Or(processEnv["LLM_MODEL_ID"], default))

CredentialsMissingKeyOnly(apiKey, baseUrl) == ~Truthy(apiKey)

\* !this.apiKey || !this.baseUrl
CredentialsMissing(apiKey, baseUrl) == ~Truthy(apiKey) \/ ~Truthy(baseUrl)

DEFAULT_TIMEOUT == 60

\* timeout || parseInt(process.env.LLM_TIMEOUT || "60", 10); a timeout
\* option is a number, 0 when it is not passed
ResolveTimeout(processEnv, timeout) ==
    IF timeout # 0 THEN Num(timeout * Scale)
    ELSE IF Truthy(processEnv["LLM_TIMEOUT"]) THEN parseInt(processEnv["LLM_TIMEOUT"])
    ELSE Num(DEFAULT_TIMEOUT * Scale)

MILLISECONDS == 1000

\* the timeout _createClient hands to the OpenAI client
ClientTimeout(draft, timeout) ==
    IF timeout.nan THEN timeout
    ELSE IF draft = "core" THEN Num(timeout.n * MILLISECONDS) ELSE timeout

NoOptions ==
    [provider |-> Undefined, apiKey |-> Undefined, baseUrl |-> Undefined,
     model |-> Undefined, timeout |-> 0]

CONFIG_ERROR == "API key and base URL must be provided"

\* new HelloAgentsLLM(options) under processEnv: the fields of the instance,
\* or the exception the constructor throws
Constructor(draft, processEnv, options) ==
    LET requestedProvider == IF Truthy(options.provider)
                             THEN toLowerCase(options.provider) ELSE Undefined
        detects == ~Truthy(requestedProvider)
        provider == IF detects
                    THEN _autoDetectProvider(draft, processEnv, options.apiKey, options.baseUrl)
                    ELSE requestedProvider
        credentials == IF requestedProvider = <<"custom">>
                       THEN CustomCredentials(processEnv, options.apiKey, options.baseUrl)
                       ELSE _resolveCredentials(provider, processEnv, options.apiKey,
                                                options.baseUrl)
        model == ResolveModel(processEnv, options.model,
                              _getDefaultModel(provider, processEnv, Undefined))
        timeout == ResolveTimeout(processEnv, options.timeout)
    IN  [ constructed |-> ~CredentialsMissing(credentials[1], credentials[2]),
          error |-> IF CredentialsMissing(credentials[1], credentials[2])
                    THEN [name |-> "HelloAgentsException", message |-> <<CONFIG_ERROR>>]
                    ELSE NoRejection,
          options |-> options,
          detects |-> detects,
          provider |-> provider,
          apiKey |-> credentials[1],
          baseUrl |-> credentials[2],
          model |-> model,
          timeout |-> timeout,
          clientTimeout |-> ClientTimeout(draft, timeout) ]

\* ------------------------------------------------------------------------
\* HelloAgentsLLM: the settings a process can hold
\* ------------------------------------------------------------------------
\* the number of settings (variables set, options passed) of one construction
MaxSettings == 3

\* the deltas of one stream
MaxChunks == 3

ApiKeys ==
    { <<"key">>, <<"ms-", "key">>, <<"OLLAMA">>, <<"vllm">>, <<"Local">>,
      <<"sk-", "body48">>, <<"sk-", "body30", "body17">>,
      <<"key", DOT, "key">>, <<"key", DOT>>, <<DOT, "body30">> }

BaseUrls ==
    { <<HTTPS, "example.com">>, <<HTTPS, "API.OPENAI.COM", "/v1">>,
      <<HTTPS, "api.deepseek.com">>, <<HTTPS, "api-inference.modelscope.cn", "/v1/">>,
      <<HTTP, "localhost", ":11434">>, <<HTTP, "127.0.0.1", ":8000", "/vllm">>,
      <<HTTP, "localhost", ":3000">> }

\* the values a variable of the environment is set to
EnvValues(name) ==
    IF name = "LLM_API_KEY" THEN ApiKeys
    ELSE IF name = "LLM_BASE_URL" THEN BaseUrls
    ELSE IF name = "LLM_MODEL_ID" THEN {<<"env-model">>}
    ELSE IF name = "LLM_TIMEOUT" THEN {<<"1", "5">>}
    ELSE IF name = "OLLAMA_HOST" THEN {<<HTTP, "ollama-host", ":11434">>, <<>>}
    ELSE IF name = "VLLM_HOST" THEN {<<HTTP, "vllm-host", ":8000">>}
    ELSE IF name = "OPENAI_API_KEY" THEN {<<"key of ", name>>, <<>>}
    ELSE {<<"key of ", name>>}

ProviderOptions == { <<"custom">>, <<"OpenAI">>, <<"deepseek">>, <<"ollama">>, <<"auto">> }
ApiKeyOptions == { <<"explicit-key">>, <<"OLLAMA">>, <<>> }
BaseUrlOptions == { <<HTTPS, "explicit.example.org">>, <<HTTP, "localhost", ":11434">>, <<>> }
ModelOptions == { <<"explicit-model">> }
TimeoutOptions == { 30 }

OptionSets ==
    [provider : ProviderOptions \cup {Undefined}, apiKey : ApiKeyOptions \cup {Undefined},
     baseUrl : BaseUrlOptions \cup {Undefined}, model : ModelOptions \cup {Undefined},
     timeout : TimeoutOptions \cup {0}]

\* the number of variables set, of options passed
VariablesSet(processEnv) == Cardinality({name \in EnvNames : processEnv[name] # Undefined})
OptionsPassed(options) ==
    (IF options.provider # Undefined THEN 1 ELSE 0)
    + (IF options.apiKey # Undefined THEN 1 ELSE 0)
    + (IF options.baseUrl # Undefined THEN 1 ELSE 0)
    + (IF options.model # Undefined THEN 1 ELSE 0)
    + (IF options.timeout # 0 THEN 1 ELSE 0)

\* no instance yet
NoLLM == [constructed |-> FALSE]

\* no call of think yet
NoThink == [pc |-> "idle", received |-> <<>>, yielded |-> <<>>, error |-> NoRejection]

\* an environment nobody has set, no HelloAgentsLLM constructed
LLMIdle ==
    /\ env = EmptyEnv
    /\ llm = NoLLM
    /\ think = NoThink

\* the HelloAgentsLLM an agent is given: made under OPENAI_API_KEY alone
OpenaiEnv == [EmptyEnv EXCEPT !["OPENAI_API_KEY"] = <<"key of ", "OPENAI_API_KEY">>]

LLMReady(lDraft) ==
    /\ env = OpenaiEnv
    /\ llm = Constructor(lDraft, OpenaiEnv, NoOptions)
    /\ think = NoThink

\* the state after new SimpleAgent({toolRegistry: registry, enableToolCalling:
\* flag}) in a build with the given classes
EnableToolCallingAsPassed(flag, registry) == flag

\* this.enableToolCalling = enableToolCalling && !!toolRegistry
EnableToolCalling(flag, registry) == flag /\ registry.present

Constructed(mDraft, lDraft, registry, flag) ==
    /\ messageDraft = mDraft
    /\ llmDraft = lDraft
    /\ toolRegistry = registry
    /\ enableToolCalling = EnableToolCalling(flag, registry)
    /\ calls = <<>>
    /\ _history = <<>>
    /\ pc = "idle"
    /\ inputText = <<>>
    /\ maxToolIterations = 0
    /\ currentIteration = 0
    /\ finalResponse = <<>>
    /\ messages = <<>>
    /\ currentMessages = <<>>
    /\ modelCalls = 0
    /\ iterLog = <<>>
    /\ historyAtStart = <<>>
    /\ rejection = NoRejection
    /\ turns = 0

Init ==
    /\ arg = <<>>
    /\ ret = <<>>
    /\ \E mDraft \in MessageDrafts, lDraft \in LLMDrafts, registry \in Registries,
          flag \in BOOLEAN :
            /\ Constructed(mDraft, lDraft, registry, flag)
            /\ LLMReady(lDraft)

\* the agent of the specifications that apply one function on its own
AgentIdle == Constructed("roleFirst", "core", NoRegistry, TRUE) /\ LLMReady("core")

\* run is called: the messages are built and the first model call is issued
StartRun ==
    /\ pc \in {"idle", "done", "failed"}
    /\ turns < MaxTurns
    /\ \E input \in InputTexts, max \in 0..MaxIterations :
          /\ inputText' = input
          /\ maxToolIterations' = max
          /\ messages' = BuildMessages(enableToolCalling, toolRegistry, _history, input)
          /\ pc' = IF ~enableToolCalling THEN "invokeSimple"
                   ELSE IF LoopContinues(0, max) THEN "invokeLoop"
                   ELSE IF NeedsFinalCall(0, max, <<>>) THEN "invokeExtra"
                   ELSE "done"
          /\ _history' = IF enableToolCalling /\ ~LoopContinues(0, max)
                            /\ ~NeedsFinalCall(0, max, <<>>)
                         THEN SaveTurn(messageDraft, _history, input, <<>>)
                         ELSE _history
    /\ currentMessages' = IF enableToolCalling THEN messages' ELSE <<>>
    /\ currentIteration' = 0
    /\ finalResponse' = <<>>
    /\ modelCalls' = IF pc' = "done" THEN 0 ELSE 1
    /\ iterLog' = <<>>
    /\ historyAtStart' = _history
    /\ rejection' = NoRejection
    /\ turns' = turns + 1
    /\ UNCHANGED <<fnVars, agentVars>>

\* tool calling disabled: the one model call returns
SimpleReturns ==
    /\ pc = "invokeSimple"
    /\ \E response \in Returned(llmDraft) :
          /\ finalResponse' = response
          /\ _history' = SaveTurn(messageDraft, _history, inputText, response)
    /\ pc' = "done"
    /\ UNCHANGED <<fnVars, agentVars, inputText, maxToolIterations, currentIteration,
                   messages, currentMessages, modelCalls, iterLog, historyAtStart,
                   rejection, turns>>

\* the model call of the loop returns: one pass of the while loop, up to the
\* next model call or the end of run
LoopReturns ==
    /\ pc = "invokeLoop"
    /\ \E response \in Returned(llmDraft) :
        LET toolCalls == _parseToolCalls(response)
        IN  IF TakesToolBranch(toolCalls)
            THEN LET toolResults == ExecuteCalls(toolRegistry, toolCalls)
                     cleanResponse == StripCalls(response, toolCalls)
                     iteration == currentIteration + 1
                 IN  /\ messages' = messages \o
                            << [role |-> ASSISTANT, content |-> cleanResponse],
                               [role |-> USER, content |-> ObservationContent(toolResults)] >>
                     /\ currentIteration' = iteration
                     /\ iterLog' = Append(iterLog, [response |-> response, ranTools |-> TRUE,
                                                   toolResults |-> toolResults])
                     /\ UNCHANGED finalResponse
                     /\ IF LoopContinues(iteration, maxToolIterations)
                        THEN /\ pc' = "invokeLoop"
                             /\ modelCalls' = modelCalls + 1
                             /\ UNCHANGED _history
                        ELSE IF NeedsFinalCall(iteration, maxToolIterations, finalResponse)
                        THEN /\ pc' = "invokeExtra"
                             /\ modelCalls' = modelCalls + 1
                             /\ UNCHANGED _history
                        ELSE /\ pc' = "done"
                             /\ _history' = SaveTurn(messageDraft, _history, inputText,
                                                     finalResponse)
                             /\ UNCHANGED modelCalls
            ELSE /\ finalResponse' = response
                 /\ iterLog' = Append(iterLog, [response |-> response, ranTools |-> FALSE,
                                               toolResults |-> <<>>])
                 /\ UNCHANGED <<messages, currentIteration>>
                 /\ IF NeedsFinalCall(currentIteration, maxToolIterations, response)
                    THEN /\ pc' = "invokeExtra"
                         /\ modelCalls' = modelCalls + 1
                         /\ UNCHANGED _history
                    ELSE /\ pc' = "done"
                         /\ _history' = SaveTurn(messageDraft, _history, inputText, response)
                         /\ UNCHANGED modelCalls
    /\ UNCHANGED <<fnVars, agentVars, inputText, maxToolIterations, currentMessages,
                   historyAtStart, rejection, turns>>

\* the model call made after the loop returns
ExtraReturns ==
    /\ pc = "invokeExtra"
    /\ \E response \in Returned(llmDraft) :
          /\ finalResponse' = response
          /\ _history' = SaveTurn(messageDraft, _history, inputText, response)
    /\ pc' = "done"
    /\ UNCHANGED <<fnVars, agentVars, inputText, maxToolIterations, currentIteration,
                   messages, currentMessages, modelCalls, iterLog, historyAtStart,
                   rejection, turns>>

InvokeFailsAfterSavingInput ==
    /\ pc \in {"invokeSimple", "invokeLoop", "invokeExtra"}
    /\ pc' = "failed"
    /\ \E result \in ClientResults :
          /\ ~invoke(llmDraft, result).ok
          /\ rejection' = invoke(llmDraft, result).error
    /\ _history' = addMessage(_history, Message(messageDraft, USER, inputText))
    /\ UNCHANGED <<fnVars, agentVars, inputText, maxToolIterations,
                   currentIteration, finalResponse, messages, currentMessages,
                   modelCalls, iterLog, historyAtStart, turns>>

\* HelloAgentsLLM.invoke throws: run has no handler, so it rejects
InvokeFails ==
    /\ pc \in {"invokeSimple", "invokeLoop", "invokeExtra"}
    /\ pc' = "failed"
    /\ \E result \in ClientResults :
          /\ ~invoke(llmDraft, result).ok
          /\ rejection' = invoke(llmDraft, result).error
    /\ UNCHANGED <<fnVars, agentVars, _history, inputText, maxToolIterations,
                   currentIteration, finalResponse, messages, currentMessages,
                   modelCalls, iterLog, historyAtStart, turns>>

Next == StartRun \/ SimpleReturns \/ LoopReturns \/ ExtraReturns \/ InvokeFails

Spec == Init /\ [][Next]_vars

\* every model call returns or throws
FairSpec ==
    Spec /\ WF_vars(SimpleReturns \/ LoopReturns \/ ExtraReturns \/ InvokeFails)

\* ------------------------------------------------------------------------
\* Calls of run that overlap: while one call is suspended at its awaited
\* model call the caller makes another call, or a suspended call goes on
\* ------------------------------------------------------------------------
\* the locals of the call that holds the thread
Frame ==
    [pc |-> pc, inputText |-> inputText, maxToolIterations |-> maxToolIterations,
     currentIteration |-> currentIteration, finalResponse |-> finalResponse,
     messages |-> messages, currentMessages |-> currentMessages,
     modelCalls |-> modelCalls, iterLog |-> iterLog, historyAtStart |-> historyAtStart,
     rejection |-> rejection]

\* no call holds the thread
NoFrame ==
    [pc |-> "idle", inputText |-> <<>>, maxToolIterations |-> 0, currentIteration |-> 0,
     finalResponse |-> <<>>, messages |-> <<>>, currentMessages |-> <<>>,
     modelCalls |-> 0, iterLog |-> <<>>, historyAtStart |-> <<>>, rejection |-> NoRejection]

\* frame takes the thread
Installed(frame) ==
    /\ pc' = frame.pc
    /\ inputText' = frame.inputText
    /\ maxToolIterations' = frame.maxToolIterations
    /\ currentIteration' = frame.currentIteration
    /\ finalResponse' = frame.finalResponse
    /\ messages' = frame.messages
    /\ currentMessages' = frame.currentMessages
    /\ modelCalls' = frame.modelCalls
    /\ iterLog' = frame.iterLog
    /\ historyAtStart' = frame.historyAtStart
    /\ rejection' = frame.rejection

\* await this.llm.invoke(...): the call is suspended and the thread goes
\* back to the caller, who has another call to make or to go on with
Await ==
    /\ pc \in {"invokeSimple", "invokeLoop", "invokeExtra"}
    /\ turns < MaxTurns \/ calls # <<>>
    /\ calls' = Append(calls, Frame)
    /\ Installed(NoFrame)
    /\ UNCHANGED <<fnVars, messageDraft, llmDraft, toolRegistry, enableToolCalling, env, llm,
                   think, _history, turns>>

\* the awaited model call of a suspended call settles: the call goes on
Resume ==
    /\ pc \in {"idle", "done", "failed"}
    /\ \E i \in 1..Len(calls) :
          /\ Installed(calls[i])
          /\ calls' = SubSeq(calls, 1, i - 1) \o SubSeq(calls, i + 1, Len(calls))
    /\ UNCHANGED <<fnVars, messageDraft, llmDraft, toolRegistry, enableToolCalling, env, llm,
                   think, _history, turns>>

NextOverlap ==
    StartRun \/ SimpleReturns \/ LoopReturns \/ ExtraReturns \/ InvokeFails \/ Await
        \/ Resume

SpecOverlap == Init /\ [][NextOverlap]_vars

\* ------------------------------------------------------------------------
\* SimpleAgent.addTool, removeTool, hasTools between the turns
\* ------------------------------------------------------------------------
\* the tools a caller adds: one that runs, one that throws
Tools == { [name |-> <<"search">>, throws |-> FALSE], [name |-> <<"memory">>, throws |-> TRUE] }

\* new ToolRegistry()
EmptyRegistry == [present |-> TRUE, tools |-> {}, throwing |-> {}]

\* ToolRegistry.registerTool, unregisterTool
registerTool(registry, tool) ==
    [registry EXCEPT !.tools = @ \cup {tool.name},
                     !.throwing = IF tool.throws THEN @ \cup {tool.name} ELSE @ \ {tool.name}]

unregisterTool(registry, toolName) ==
    [registry EXCEPT !.tools = @ \ {toolName}, !.throwing = @ \ {toolName}]

hasTools(enabled, registry) == enabled /\ registry.present

\* await agent.addTool(tool): a registry is made, and tool calling switched
\* on, when the agent has none
addTool ==
    /\ pc \in {"idle", "done", "failed"}
    /\ \E tool \in Tools :
          IF ~toolRegistry.present
          THEN /\ toolRegistry' = registerTool(EmptyRegistry, tool)
               /\ enableToolCalling' = TRUE
          ELSE /\ toolRegistry' = registerTool(toolRegistry, tool)
               /\ UNCHANGED enableToolCalling
    /\ UNCHANGED <<fnVars, calls, messageDraft, llmDraft, env, llm, think, _history, turnVars>>

\* agent.removeTool(toolName): true when there is a registry
removeTool ==
    /\ pc \in {"idle", "done", "failed"}
    /\ toolRegistry.present
    /\ \E tool \in Tools : toolRegistry' = unregisterTool(toolRegistry, tool.name)
    /\ UNCHANGED <<fnVars, calls, messageDraft, llmDraft, enableToolCalling, env, llm, think,
                   _history, turnVars>>

NextTools ==
    addTool \/ removeTool \/ StartRun \/ SimpleReturns \/ LoopReturns \/ ExtraReturns
        \/ InvokeFails

SpecTools == Init /\ [][NextTools]_vars

InitParse ==
    /\ arg \in {[text |-> t] : t \in ParseTexts}
    /\ ret = <<>>
    /\ AgentIdle

ParseStep ==
    /\ ret = <<>>
    /\ ret' = <<[toolCalls |-> _parseToolCalls(arg.text)]>>
    /\ UNCHANGED <<arg, agentVars, _history, turnVars>>

StripStep ==
    /\ Len(ret) = 1
    /\ ret' = Append(ret, [cleanResponse |-> StripCalls(arg.text, ret[1].toolCalls)])
    /\ UNCHANGED <<arg, agentVars, _history, turnVars>>

NextParse == ParseStep \/ StripStep

SpecParse == InitParse /\ [][NextParse]_vars

\* ------------------------------------------------------------------------
\* The parameter coercion applied to bounded parameter maps and texts
\* ------------------------------------------------------------------------
MaxParams == 2

ParamKeys == {<<"x">>, <<"y">>, <<"z">>}

ParamValues ==
    { Str(<<"3">>), Str(<<"3", DOT, "5">>), Str(<<"1", "5">>), Str(<<"abc">>),
      Str(<<"TRUE">>), Num(5 * Scale), Bool(FALSE), Null }

\* the maps of at most n entries with distinct keys
RECURSIVE DictsUpTo(_)
DictsUpTo(n) ==
    IF n = 0 THEN {<<>>}
    ELSE LET shorter == DictsUpTo(n - 1)
         IN  shorter \cup
             { Append(d, [k |-> key, v |-> value]) :
                 d \in {q \in shorter : Len(q) = n - 1},
                 key \in ParamKeys, value \in ParamValues }

ParamDicts == {d \in DictsUpTo(MaxParams) : \A i, j \in 1..Len(d) : d[i].k = d[j].k => i = j}

Declare(name, type) == [name |-> name, type |-> <<type>>]

Lookups ==
    { NoRegistryLookup, NoToolLookup,
      ToolLookup("absent", <<>>), ToolLookup("throws", <<>>), ToolLookup("notArray", <<>>),
      ToolLookup("array", <<>>),
      ToolLookup("array", <<Declare(<<"x">>, "number")>>),
      ToolLookup("array", <<Declare(<<"x">>, "integer")>>),
      ToolLookup("array", <<Declare(<<"x">>, "boolean")>>),
      ToolLookup("array", <<Declare(<<"x">>, "string")>>),
      ToolLookup("array", <<Declare(<<"x">>, "Number"), Declare(<<"y">>, "integer")>>),
      ToolLookup("array", <<Declare(<<"x">>, "string"), Declare(<<"x">>, "number")>>) }

ToolNames == {<<"calc">>, <<"search">>, <<"memory">>, <<"rag">>}

\* {"x":"3","y":5}
ExampleJson ==
    <<LBRACE, QUOTE, "x", QUOTE, COLON, QUOTE, "3", QUOTE, COMMA,
      QUOTE, "y", QUOTE, COLON, "5", RBRACE>>

RawParameters ==
    { ExampleJson,
      <<SP, LBRACE, QUOTE, "x", QUOTE, COLON, SP, QUOTE, "abc", QUOTE, SP, RBRACE, SP>>,
      <<LBRACE, QUOTE, "x", QUOTE, COLON, "3", DOT, "5", COMMA, QUOTE, "y", QUOTE, COLON, "true", RBRACE>>,
      <<LBRACE, QUOTE, "recall", QUOTE, COLON, QUOTE, "cats", QUOTE, RBRACE>>,
      <<LBRACE, QUOTE, "action", QUOTE, COLON, QUOTE, "add", QUOTE, COMMA,
        QUOTE, "recall", QUOTE, COLON, QUOTE, "cats", QUOTE, RBRACE>>,
      <<LBRACE, QUOTE, "search", QUOTE, COLON, QUOTE, "cats", QUOTE, RBRACE>>,
      <<LBRACE, QUOTE, "store", QUOTE, COLON, QUOTE, "cats", QUOTE, COMMA,
        QUOTE, "recall", QUOTE, COLON, QUOTE, "dogs", QUOTE, RBRACE>>,
      <<LBRACE, RBRACE>>,
      <<LBRACE, "x", EQ, "3", RBRACE>>,
      <<LBRACE, QUOTE, "x", QUOTE, COLON, "3", COMMA, RBRACE>>,
      <<"k", EQ, "v">>,
      <<"x", EQ, "3">>,
      <<"a", EQ, "1", COMMA, "b", EQ, "3">>,
      <<"a", EQ, "b", EQ, "c">>,
      <<SP, "recall", SP, EQ, SP, "cats", SP>>,
      <<"store", EQ, "cats", COMMA, "x", EQ, "3">>,
      <<"action", EQ, "add", COMMA, "recall", EQ, "cats">>,
      <<"search", EQ, "cats">>,
      <<"Python">>,
      <<"a", COMMA, "b">> }

ConvertArgs ==
    {[fn |-> "convert", lookup |-> l, paramDict |-> d] : l \in Lookups, d \in ParamDicts}

ParseArgs ==
    {[fn |-> "parse", lookup |-> l, toolName |-> n, parameters |-> r] :
        l \in Lookups, n \in ToolNames, r \in RawParameters}

InitParams ==
    /\ arg \in ConvertArgs \cup ParseArgs
    /\ ret = <<>>
    /\ AgentIdle

ConvertStep ==
    /\ ret = <<>>
    /\ arg.fn = "convert"
    /\ ret' = <<_convertParameterTypes(arg.lookup, arg.paramDict)>>
    /\ UNCHANGED <<arg, agentVars, _history, turnVars>>

ParseParametersStep ==
    /\ ret = <<>>
    /\ arg.fn = "parse"
    /\ ret' = <<_parseToolParameters(arg.lookup, arg.toolName, arg.parameters)>>
    /\ UNCHANGED <<arg, agentVars, _history, turnVars>>

NextParams == ConvertStep \/ ParseParametersStep

SpecParams == InitParams /\ [][NextParams]_vars

\* ------------------------------------------------------------------------
\* Constructing HelloAgentsLLM under an environment
\* ------------------------------------------------------------------------
InitLLM ==
    /\ arg = <<>>
    /\ ret = <<>>
    /\ \E lDraft \in LLMDrafts :
          /\ Constructed("roleFirst", lDraft, NoRegistry, TRUE)
          /\ LLMIdle

\* a variable is set before the instance is made (the shell, or the .env
\* file dotenv.config() loads)
SetEnv ==
    /\ llm = NoLLM
    /\ VariablesSet(env) < MaxSettings
    /\ \E name \in EnvNames :
          /\ env[name] = Undefined
          /\ \E value \in EnvValues(name) : env' = [env EXCEPT ![name] = value]
    /\ UNCHANGED <<fnVars, calls, messageDraft, llmDraft, toolRegistry, enableToolCalling,
                   llm, think, _history, turnVars>>

\* new HelloAgentsLLM(options)
Construct ==
    /\ llm = NoLLM
    /\ LET budget == MaxSettings - VariablesSet(env)
       IN  \E options \in OptionSets :
              /\ OptionsPassed(options) <= budget
              /\ llm' = Constructor(llmDraft, env, options)
    /\ UNCHANGED <<fnVars, calls, messageDraft, llmDraft, toolRegistry, enableToolCalling,
                   env, think, _history, turnVars>>

NextLLM == SetEnv \/ Construct

SpecLLM == InitLLM /\ [][NextLLM]_vars

\* ------------------------------------------------------------------------
\* HelloAgentsLLM.think
\* ------------------------------------------------------------------------
\* chunk?.choices?.[0]?.delta?.content of the chunks of a stream: a text,
\* an empty text, or none
Deltas == { <<"a">>, <<SP>>, <<SP, "b">>, <<>>, Undefined }

\* content ?? "" (content || "" in the other class)
ContentOf(delta) == IF delta = Undefined THEN <<>> ELSE delta

\* the test that guards yield content
Yields(draft, content) ==
    IF draft = "core" THEN content # <<>>
    ELSE content # <<>> /\ Trim(content) # <<>>

InitThink ==
    /\ arg = <<>>
    /\ ret = <<>>
    /\ \E lDraft \in LLMDrafts :
          /\ Constructed("roleFirst", lDraft, NoRegistry, TRUE)
          /\ LLMReady(lDraft)

\* the consumer asks for the first fragment: think sends the request
ThinkCalled ==
    /\ llm.constructed
    /\ think.pc = "idle"
    /\ think' = [think EXCEPT !.pc = "awaiting"]
    /\ UNCHANGED <<fnVars, calls, messageDraft, llmDraft, toolRegistry, enableToolCalling,
                   env, llm, _history, turnVars>>

\* the client answers with a stream
StreamOpens ==
    /\ think.pc = "awaiting"
    /\ think' = [think EXCEPT !.pc = "streaming"]
    /\ UNCHANGED <<fnVars, calls, messageDraft, llmDraft, toolRegistry, enableToolCalling,
                   env, llm, _history, turnVars>>

\* one chunk arrives and is yielded or skipped
ChunkArrives ==
    /\ think.pc = "streaming"
    /\ Len(think.received) < MaxChunks
    /\ \E delta \in Deltas :
          think' = [think EXCEPT
                      !.received = Append(@, ContentOf(delta)),
                      !.yielded = IF Yields(llmDraft, ContentOf(delta))
                                  THEN Append(@, ContentOf(delta)) ELSE @]
    /\ UNCHANGED <<fnVars, calls, messageDraft, llmDraft, toolRegistry, enableToolCalling,
                   env, llm, _history, turnVars>>

\* the stream ends: the generator returns
StreamEnds ==
    /\ think.pc = "streaming"
    /\ think' = [think EXCEPT !.pc = "done"]
    /\ UNCHANGED <<fnVars, calls, messageDraft, llmDraft, toolRegistry, enableToolCalling,
                   env, llm, _history, turnVars>>

\* the request or the stream throws: think throws the one exception
ThinkFails ==
    /\ think.pc \in {"awaiting", "streaming"}
    /\ think' = [think EXCEPT
                   !.pc = "failed",
                   !.error = [name |-> "HelloAgentsException",
                              message |-> <<"LLM call failed: ">> \o ClientThrows.message]]
    /\ UNCHANGED <<fnVars, calls, messageDraft, llmDraft, toolRegistry, enableToolCalling,
                   env, llm, _history, turnVars>>

NextThink == ThinkCalled \/ StreamOpens \/ ChunkArrives \/ StreamEnds \/ ThinkFails

SpecThink == InitThink /\ [][NextThink]_vars

\* ------------------------------------------------------------------------
\* SimpleAgent.streamRun: the generator, the stream of think under it and
\* the consumer that iterates it
\* ------------------------------------------------------------------------
\* the messages streamRun hands to streamInvoke
StreamMessages(draft, history, input) ==
    <<Message(draft, SYSTEM, <<"base prompt">>)>> \o history \o <<Message(draft, USER, input)>>

InitStream ==
    /\ arg = <<>>
    /\ ret = <<>>
    /\ \E mDraft \in MessageDrafts, lDraft \in LLMDrafts :
          /\ Constructed(mDraft, lDraft, NoRegistry, TRUE)
          /\ LLMReady(lDraft)

\* the consumer asks for the first fragment: the body runs up to the request
\* think sends
StreamRunCalled ==
    /\ pc \in {"idle", "done", "failed", "returned"}
    /\ turns < MaxTurns
    /\ \E input \in InputTexts :
          /\ inputText' = input
          /\ messages' = StreamMessages(messageDraft, _history, input)
    /\ finalResponse' = <<>>
    /\ think' = [NoThink EXCEPT !.pc = "awaiting"]
    /\ pc' = "streamAwait"
    /\ historyAtStart' = _history
    /\ rejection' = NoRejection
    /\ turns' = turns + 1
    /\ UNCHANGED <<fnVars, calls, messageDraft, llmDraft, toolRegistry, enableToolCalling, env, llm,
                   _history, maxToolIterations, currentIteration, currentMessages,
                   modelCalls, iterLog>>

\* the client answers with a stream
StreamRunOpens ==
    /\ pc = "streamAwait"
    /\ think' = [think EXCEPT !.pc = "streaming"]
    /\ pc' = "streaming"
    /\ UNCHANGED <<fnVars, calls, messageDraft, llmDraft, toolRegistry, enableToolCalling, env, llm,
                   _history, inputText, maxToolIterations, currentIteration, finalResponse,
                   messages, currentMessages, modelCalls, iterLog, historyAtStart,
                   rejection, turns>>

\* one chunk arrives: think skips it, or yields it and streamRun adds it to
\* fullResponse and yields it to the consumer
StreamRunChunk ==
    /\ pc = "streaming"
    /\ Len(think.received) < MaxChunks
    /\ \E delta \in Deltas :
          LET content == ContentOf(delta)
          IN  /\ think' = [think EXCEPT
                             !.received = Append(@, content),
                             !.yielded = IF Yields(llmDraft, content)
                                         THEN Append(@, content) ELSE @]
              /\ finalResponse' = IF Yields(llmDraft, content)
                                  THEN finalResponse \o content ELSE finalResponse
              /\ pc' = IF Yields(llmDraft, content) THEN "yielded" ELSE "streaming"
    /\ UNCHANGED <<fnVars, calls, messageDraft, llmDraft, toolRegistry, enableToolCalling, env, llm,
                   _history, inputText, maxToolIterations, currentIteration,
                   messages, currentMessages, modelCalls, iterLog, historyAtStart,
                   rejection, turns>>

\* the consumer asks for the next fragment
ConsumerNext ==
    /\ pc = "yielded"
    /\ pc' = "streaming"
    /\ UNCHANGED <<fnVars, agentVars, _history, inputText, maxToolIterations,
                   currentIteration, finalResponse, messages, currentMessages, modelCalls,
                   iterLog, historyAtStart, rejection, turns>>

ConsumerStopsSavingPartial ==
    /\ pc = "yielded"
    /\ pc' = "returned"
    /\ _history' = SaveTurn(messageDraft, _history, inputText, finalResponse)
    /\ UNCHANGED <<fnVars, agentVars, inputText, maxToolIterations,
                   currentIteration, finalResponse, messages, currentMessages, modelCalls,
                   iterLog, historyAtStart, rejection, turns>>

\* the consumer leaves its loop: the generator is returned at its yield and
\* the rest of the body never runs
ConsumerStops ==
    /\ pc = "yielded"
    /\ pc' = "returned"
    /\ UNCHANGED <<fnVars, agentVars, _history, inputText, maxToolIterations,
                   currentIteration, finalResponse, messages, currentMessages, modelCalls,
                   iterLog, historyAtStart, rejection, turns>>

\* the stream ends: the loop ends and the two records are appended
StreamRunEnds ==
    /\ pc = "streaming"
    /\ think' = [think EXCEPT !.pc = "done"]
    /\ _history' = SaveTurn(messageDraft, _history, inputText, finalResponse)
    /\ pc' = "done"
    /\ UNCHANGED <<fnVars, calls, messageDraft, llmDraft, toolRegistry, enableToolCalling, env, llm,
                   inputText, maxToolIterations, currentIteration, finalResponse,
                   messages, currentMessages, modelCalls, iterLog, historyAtStart,
                   rejection, turns>>

\* the request or the stream throws: think throws, streamRun has no handler
StreamRunFails ==
    /\ pc \in {"streamAwait", "streaming"}
    /\ think' = [think EXCEPT
                   !.pc = "failed",
                   !.error = [name |-> "HelloAgentsException",
                              message |-> <<"LLM call failed: ">> \o ClientThrows.message]]
    /\ rejection' = think'.error
    /\ pc' = "failed"
    /\ UNCHANGED <<fnVars, calls, messageDraft, llmDraft, toolRegistry, enableToolCalling, env, llm,
                   _history, inputText, maxToolIterations, currentIteration, finalResponse,
                   messages, currentMessages, modelCalls, iterLog, historyAtStart, turns>>

NextStream ==
    StreamRunCalled \/ StreamRunOpens \/ StreamRunChunk \/ ConsumerNext \/ ConsumerStops
        \/ StreamRunEnds \/ StreamRunFails

SpecStream == InitStream /\ [][NextStream]_vars

\* ------------------------------------------------------------------------
\* Properties of the parser
\* ------------------------------------------------------------------------
HasTag(text) == MatchAll(text, 1) # <<>>

\* C8: _parseToolCalls returns one ToolCall per match of the tag pattern, in
\* left-to-right order, and each call's toolName is the <name> field and its
\* parameters the <parameters> field of its own tag; the names of the two-tag
\* example are "search" then "memory", and the two tags of the system prompt
\* are parsed the same way.
C8_CallFieldsAreTagFields ==
    Len(ret) >= 1 =>
        LET toolCalls == ret[1].toolCalls
            matches == MatchAll(arg.text, 1)
        IN  /\ Len(toolCalls) = Len(matches)
            /\ \A k \in 1..Len(matches) :
                  /\ toolCalls[k].toolName = Trim(matches[k].groups[2])
                  /\ toolCalls[k].parameters = Trim(matches[k].groups[3])
            /\ arg.text = TwoTagExample =>
                  /\ Len(toolCalls) = 2
                  /\ toolCalls[1].toolName = <<"search">>
                  /\ toolCalls[2].toolName = <<"memory">>

\* C9: every ToolCall.original is a verbatim substring of the text it was
\* parsed from, and the text left after removing each call's original holds
\* no tag; for the two-tag example it is "pre  mid  post".
C9_OriginalIsSubstringAndStripped ==
    /\ Len(ret) >= 1 =>
          \A k \in 1..Len(ret[1].toolCalls) :
              Includes(arg.text, ret[1].toolCalls[k].original)
    /\ Len(ret) = 2 =>
          /\ ~HasTag(ret[2].cleanResponse)
          /\ arg.text = TwoTagExample =>
                ret[2].cleanResponse = <<"pre", SP, SP, "mid", SP, SP, "post">>

\* ------------------------------------------------------------------------
\* Properties of the turn
\* ------------------------------------------------------------------------
InTurn == pc \in {"invokeSimple", "invokeLoop", "invokeExtra"}

\* the tool a tag names: its <name> field
NamedTool(match) == Trim(match.groups[2])

ToolFails(registry, toolName) ==
    toolName \notin registry.tools \/ toolName \in registry.throwing

IsFailureObservation(observation) ==
    /\ observation # <<>>
    /\ Head(observation) \in {"X no registry", "X tool not found '", "X tool call failed:"}

\* C1: with tool calling enabled, a first response without a tag ends the
\* turn after exactly one model call: the iteration counter stays 0, no tool
\* branch is taken, no observation message is built, and the final answer is
\* that response.
C1_NoTagDoneAfterOneCall ==
    (enableToolCalling /\ Len(iterLog) >= 1 /\ ~HasTag(iterLog[1].response)) =>
        /\ pc = "done"
        /\ modelCalls = 1
        /\ currentIteration = 0
        /\ ~iterLog[1].ranTools
        /\ messages = currentMessages
        /\ finalResponse = iterLog[1].response

\* C2: with ceiling N, if every response of the turn holds a tag, the loop
\* makes exactly N tool iterations, then exactly one more model call (N+1 in
\* all), whose output is the final answer.
C2_AlwaysTagStopsAtCeiling ==
    (/\ pc = "done"
     /\ enableToolCalling
     /\ HasTag(finalResponse)
     /\ \A i \in 1..Len(iterLog) : HasTag(iterLog[i].response)) =>
        /\ currentIteration = maxToolIterations
        /\ Len(iterLog) = maxToolIterations
        /\ \A i \in 1..Len(iterLog) : iterLog[i].ranTools
        /\ modelCalls = maxToolIterations + 1

\* C3: in every state of a turn the iteration counter is at most the ceiling
\* and at most ceiling + 1 model calls have been made, and a turn whose model
\* calls all return comes to an end.
C3_BoundedAndTerminates ==
    /\ [](/\ currentIteration <= maxToolIterations
          /\ modelCalls <= maxToolIterations + 1)
    /\ (InTurn ~> pc \in {"done", "failed"})

C3_Witness ==
    /\ pc = "done"
    /\ enableToolCalling
    /\ maxToolIterations = MaxIterations
    /\ currentIteration = maxToolIterations
    /\ modelCalls = maxToolIterations + 1

\* C4: a completed turn appends exactly two records to the history: one of
\* role user whose content is the input text, then one of role assistant
\* whose content is the final answer; nothing else of the turn is appended.
C4_TurnAppendsUserThenAssistant ==
    pc = "done" =>
        LET n == Len(historyAtStart)
        IN  /\ Len(_history) = n + 2
            /\ SubSeq(_history, 1, n) = historyAtStart
            /\ _history[n + 1] = [role |-> USER, content |-> inputText]
            /\ _history[n + 2] = [role |-> ASSISTANT, content |-> finalResponse]

\* C5: a tool failure does not abort the turn: for every tag of a response
\* whose tool is missing from the registry or throws, exactly one failure
\* observation is produced for that call, and the other calls of the response
\* still produce theirs.
C5_ToolFailureBecomesObservation ==
    enableToolCalling =>
        \A i \in 1..Len(iterLog) :
            LET matches == MatchAll(iterLog[i].response, 1)
            IN  \A k \in 1..Len(matches) :
                    ToolFails(toolRegistry, NamedTool(matches[k])) =>
                        /\ Len(iterLog[i].toolResults) = Len(matches)
                        /\ IsFailureObservation(iterLog[i].toolResults[k])

C7_ObservationsInTagOrder ==
    enableToolCalling =>
        \A i \in 1..Len(iterLog) :
            LET matches == MatchAll(iterLog[i].response, 1)
            IN  /\ Len(iterLog[i].toolResults) = Len(matches)
                /\ \A k \in 1..Len(matches) :
                      iterLog[i].toolResults[k] =
                          _executeToolCall(toolRegistry, NamedTool(matches[k]),
                                           Trim(matches[k].groups[3]))

\* ------------------------------------------------------------------------
\* Properties of the parameter coercion
\* ------------------------------------------------------------------------
\* the numbers (times Scale) the numeric strings of ParamValues denote
NumeralValue(s) ==
    IF s = <<"3">> THEN 300 ELSE IF s = <<"3", DOT, "5">> THEN 350 ELSE 1500

Numerals == {<<"3">>, <<"3", DOT, "5">>, <<"1", "5">>}
IntegerNumerals == {<<"3">>, <<"1", "5">>}

\* the types a tool declares for a parameter name
DeclaredTypes(lookup, key) ==
    IF lookup.registry /\ lookup.tool /\ lookup.getter = "array"
    THEN {lookup.params[j].type : j \in {q \in 1..Len(lookup.params) : lookup.params[q].name = key}}
    ELSE {}

\* C10: _convertParameterTypes changes only parameters whose name the tool's
\* schema declares: a parameter declared number (integer) and given as a
\* numeric (integer) string becomes that number, every undeclared parameter
\* keeps its value and type, and the text {"x":"3","y":5} with schema
\* [x: number] gives {x: 3, y: 5}.
C10_OnlyDeclaredParametersConverted ==
    ret # <<>> =>
        /\ arg.fn = "convert" =>
              /\ Len(ret[1]) = Len(arg.paramDict)
              /\ \A i \in 1..Len(arg.paramDict) :
                    LET before == arg.paramDict[i]
                        after == ret[1][i]
                        types == DeclaredTypes(arg.lookup, before.k)
                    IN  /\ after.k = before.k
                        /\ types = {} => after.v = before.v
                        /\ (types = {<<"number">>} /\ before.v.type = "string"
                                /\ before.v.s \in Numerals) =>
                              after.v = Num(NumeralValue(before.v.s))
                        /\ (types = {<<"integer">>} /\ before.v.type = "string"
                                /\ before.v.s \in IntegerNumerals) =>
                              after.v = Num(NumeralValue(before.v.s))
        /\ (/\ arg.fn = "parse"
            /\ arg.parameters = ExampleJson
            /\ arg.toolName = <<"calc">>
            /\ arg.lookup = ToolLookup("array", <<Declare(<<"x">>, "number")>>)) =>
              ret[1] = << [k |-> <<"x">>, v |-> Num(300)], [k |-> <<"y">>, v |-> Num(500)] >>

C10_Witness ==
    /\ ret # <<>>
    /\ arg.fn = "convert"
    /\ arg.lookup = ToolLookup("array", <<Declare(<<"x">>, "number")>>)
    /\ arg.paramDict = << [k |-> <<"x">>, v |-> Str(<<"3">>)], [k |-> <<"y">>, v |-> Str(<<"3">>)] >>
    /\ ret[1] = << [k |-> <<"x">>, v |-> Num(300)], [k |-> <<"y">>, v |-> Str(<<"3">>)] >>

\* ------------------------------------------------------------------------
\* Properties of _parseToolParameters on JSON texts
\* ------------------------------------------------------------------------
\* the raw text is taken by the JSON branch and JSON.parse accepts it
IsJsonObjectText(parameters) ==
    /\ Trim(parameters) # <<>>
    /\ Head(Trim(parameters)) = LBRACE
    /\ JsonParse(parameters).ok

InferenceTools == {<<"memory">>, <<"rag">>}

SetVariables == {name \in EnvNames : Truthy(env[name])}

\* the vendor each API-key variable signals, with the base URL and the model
\* the vendor's case of the code ends with
VendorDefaults ==
    { [variable |-> "OPENAI_API_KEY", provider |-> <<"openai">>,
       baseUrl |-> <<HTTPS, "api.openai.com", "/v1">>, model |-> <<"gpt-3.5-turbo">>],
      [variable |-> "DEEPSEEK_API_KEY", provider |-> <<"deepseek">>,
       baseUrl |-> <<HTTPS, "api.deepseek.com">>, model |-> <<"deepseek-chat">>],
      [variable |-> "DASHSCOPE_API_KEY", provider |-> <<"qwen">>,
       baseUrl |-> <<HTTPS, "dashscope.aliyuncs.com", "/compatible-mode/v1">>,
       model |-> <<"qwen-plus">>],
      [variable |-> "MODELSCOPE_API_KEY", provider |-> <<"modelscope">>,
       baseUrl |-> <<HTTPS, "api-inference.modelscope.cn", "/v1/">>,
       model |-> <<"Qwen/Qwen2.5-72B-Instruct">>],
      [variable |-> "KIMI_API_KEY", provider |-> <<"kimi">>,
       baseUrl |-> <<HTTPS, "api.moonshot.cn", "/v1">>, model |-> <<"moonshot-v1-8k">>],
      [variable |-> "MOONSHOT_API_KEY", provider |-> <<"kimi">>,
       baseUrl |-> <<HTTPS, "api.moonshot.cn", "/v1">>, model |-> <<"moonshot-v1-8k">>],
      [variable |-> "ZHIPU_API_KEY", provider |-> <<"zhipu">>,
       baseUrl |-> <<HTTPS, "open.bigmodel.cn", "/api/paas/v4">>, model |-> <<"glm-4">>],
      [variable |-> "GLM_API_KEY", provider |-> <<"zhipu">>,
       baseUrl |-> <<HTTPS, "open.bigmodel.cn", "/api/paas/v4">>, model |-> <<"glm-4">>],
      [variable |-> "OLLAMA_API_KEY", provider |-> <<"ollama">>,
       baseUrl |-> <<HTTP, "localhost", ":11434", "/v1">>, model |-> <<"llama3.2">>],
      [variable |-> "VLLM_API_KEY", provider |-> <<"vllm">>,
       baseUrl |-> <<HTTP, "localhost", ":8000", "/v1">>,
       model |-> <<"meta-llama/Llama-2-7b-chat-hf">>] }

\* C12: the constructor either throws the configuration exception or leaves
\* an instance whose apiKey and baseUrl are both non-empty strings.
C12_CredentialsNonEmptyOrFails ==
    llm # NoLLM =>
        IF llm.constructed
        THEN /\ llm.apiKey \notin {<<>>, Undefined}
             /\ llm.baseUrl \notin {<<>>, Undefined}
        ELSE llm.error.name = "HelloAgentsException"

\* an API key is found and no base URL: the constructor throws
C12_Witness ==
    /\ llm # NoLLM
    /\ ~llm.constructed
    /\ Truthy(llm.apiKey)
    /\ ~Truthy(llm.baseUrl)

\* C13: an option that is passed (a non-empty string) is the resolved value
\* of its field, for provider (lower-cased), apiKey, baseUrl and model,
\* whatever the environment holds.
C13_ExplicitOptionsDominate ==
    (llm # NoLLM /\ llm.constructed) =>
        /\ Truthy(llm.options.provider) => llm.provider = toLowerCase(llm.options.provider)
        /\ Truthy(llm.options.apiKey) => llm.apiKey = llm.options.apiKey
        /\ Truthy(llm.options.baseUrl) => llm.baseUrl = llm.options.baseUrl
        /\ Truthy(llm.options.model) => llm.model = llm.options.model

\* a model option wins over LLM_MODEL_ID
C13_Witness ==
    /\ llm # NoLLM
    /\ llm.constructed
    /\ Truthy(llm.options.model)
    /\ Truthy(env["LLM_MODEL_ID"])
    /\ env["LLM_MODEL_ID"] # llm.options.model
    /\ llm.model = llm.options.model

\* C14: with one vendor API-key variable set, nothing else set and no option
\* passed, construction succeeds with that vendor as provider, the
\* variable's value as apiKey, and the vendor's default base URL and model.
C14_VendorSignalAlone ==
    \A d \in VendorDefaults :
        (llm # NoLLM /\ llm.options = NoOptions /\ SetVariables = {d.variable}) =>
            /\ llm.constructed
            /\ llm.provider = d.provider
            /\ llm.apiKey = env[d.variable]
            /\ llm.baseUrl = d.baseUrl
            /\ llm.model = d.model

C14_Witness ==
    /\ llm # NoLLM
    /\ llm.options = NoOptions
    /\ SetVariables = {"GLM_API_KEY"}
    /\ llm.provider = <<"zhipu">>
    /\ llm.apiKey = env["GLM_API_KEY"]

\* C15: with provider "custom" passed, detection does not run, apiKey and
\* baseUrl are the option or else LLM_API_KEY / LLM_BASE_URL whatever the
\* vendor variables hold, and without a base URL in those two places the
\* constructor throws.
C15_CustomUsesGenericOnly ==
    (llm # NoLLM /\ Truthy(llm.options.provider)
        /\ toLowerCase(llm.options.provider) = <<"custom">>) =>
        /\ ~llm.detects
        /\ llm.provider = <<"custom">>
        /\ llm.apiKey = (IF Truthy(llm.options.apiKey) THEN llm.options.apiKey
                         ELSE IF Truthy(env["LLM_API_KEY"]) THEN env["LLM_API_KEY"]
                         ELSE <<>>)
        /\ llm.baseUrl = (IF Truthy(llm.options.baseUrl) THEN llm.options.baseUrl
                          ELSE IF Truthy(env["LLM_BASE_URL"]) THEN env["LLM_BASE_URL"]
                          ELSE <<>>)
        /\ (~Truthy(llm.options.baseUrl) /\ ~Truthy(env["LLM_BASE_URL"])) => ~llm.constructed

\* custom, a vendor key and a generic key in the environment, no base URL
C15_Witness ==
    /\ llm # NoLLM
    /\ llm.options.provider = <<"custom">>
    /\ Truthy(env["OPENAI_API_KEY"])
    /\ Truthy(env["LLM_API_KEY"])
    /\ llm.apiKey = env["LLM_API_KEY"]
    /\ ~llm.constructed

\* C16: with LLM_API_KEY alone set, to any key, and no option passed,
\* construction succeeds with base URL https://api.openai.com/v1 and model
\* gpt-3.5-turbo.
C16_ApiKeyAloneSuffices ==
    (llm # NoLLM /\ llm.options = NoOptions /\ SetVariables = {"LLM_API_KEY"}) =>
        /\ llm.constructed
        /\ llm.baseUrl = <<HTTPS, "api.openai.com", "/v1">>
        /\ llm.model = <<"gpt-3.5-turbo">>

\* the vendor of each signal variable
VendorOfVariable(name) ==
    IF name = "OPENAI_API_KEY" THEN <<"openai">>
    ELSE IF name = "DEEPSEEK_API_KEY" THEN <<"deepseek">>
    ELSE IF name = "DASHSCOPE_API_KEY" THEN <<"qwen">>
    ELSE IF name = "MODELSCOPE_API_KEY" THEN <<"modelscope">>
    ELSE IF name \in {"KIMI_API_KEY", "MOONSHOT_API_KEY"} THEN <<"kimi">>
    ELSE IF name \in {"ZHIPU_API_KEY", "GLM_API_KEY"} THEN <<"zhipu">>
    ELSE IF name \in {"OLLAMA_API_KEY", "OLLAMA_HOST"} THEN <<"ollama">>
    ELSE <<"vllm">>

\* the positions, in the order of the scan, of the signal variables that are
\* set to a non-empty value
PresentSignals == {i \in 1..Len(VendorVariables) : Truthy(env[VendorVariables[i]])}

\* C19: without a provider option, the first vendor in the order openai,
\* deepseek, qwen, modelscope, kimi, zhipu, ollama, vllm that has a signal
\* variable set is the provider, whatever other vendors' variables are set
\* and whatever the API key and the base URL look like.
C19_FirstVendorSignalWins ==
    (llm # NoLLM /\ ~Truthy(llm.options.provider) /\ PresentSignals # {}) =>
        LET first == CHOOSE i \in PresentSignals : \A j \in PresentSignals : i <= j
        IN  llm.provider = VendorOfVariable(VendorVariables[first])

\* two vendors' variables and a generic key of another vendor's shape
C19_Witness ==
    /\ llm # NoLLM
    /\ llm.options.provider = Undefined
    /\ Truthy(env["DEEPSEEK_API_KEY"])
    /\ Truthy(env["VLLM_HOST"])
    /\ env["LLM_API_KEY"] = <<"ms-", "key">>
    /\ llm.provider = <<"deepseek">>

\* what the shape of each API key of the model decides, in each class
KeyDecision(draft, key) ==
    IF key = <<"ms-", "key">> THEN <<"modelscope">>
    ELSE IF key = <<"OLLAMA">> THEN <<"ollama">>
    ELSE IF key = <<"vllm">> THEN <<"vllm">>
    ELSE IF key = <<"Local">> THEN <<"local">>
    ELSE IF key = <<"sk-", "body48">> /\ draft = "core" THEN <<"openai">>
    ELSE IF key = <<"key", DOT, "key">> /\ draft = "core" THEN <<"zhipu">>
    ELSE IF key = <<"key", DOT>> THEN <<"zhipu">>
    ELSE <<>>

\* what each base URL of the model decides
UrlDecision(url) ==
    IF url = <<HTTPS, "API.OPENAI.COM", "/v1">> THEN <<"openai">>
    ELSE IF url = <<HTTPS, "api.deepseek.com">> THEN <<"deepseek">>
    ELSE IF url = <<HTTPS, "api-inference.modelscope.cn", "/v1/">> THEN <<"modelscope">>
    ELSE IF url = <<HTTP, "localhost", ":11434">> THEN <<"ollama">>
    ELSE IF url = <<HTTP, "127.0.0.1", ":8000", "/vllm">> THEN <<"vllm">>
    ELSE IF url = <<HTTP, "localhost", ":3000">> THEN <<"local">>
    ELSE <<>>

\* C20: with no vendor signal variable set and no provider option, the API
\* key decides first, the base URL decides only when the key decides
\* nothing, and the provider is auto exactly when neither matches a rule.
C20_KeyBeforeUrl ==
    (llm # NoLLM /\ ~Truthy(llm.options.provider) /\ PresentSignals = {}) =>
        LET key == IF Truthy(llm.options.apiKey) THEN llm.options.apiKey
                   ELSE env["LLM_API_KEY"]
            url == IF Truthy(llm.options.baseUrl) THEN llm.options.baseUrl
                   ELSE env["LLM_BASE_URL"]
            byKey == KeyDecision(llmDraft, key)
            byUrl == UrlDecision(url)
        IN  /\ byKey # <<>> => llm.provider = byKey
            /\ (byKey = <<>> /\ byUrl # <<>>) => llm.provider = byUrl
            /\ llm.provider = <<"auto">> <=> (byKey = <<>> /\ byUrl = <<>>)

\* a key and a base URL that point at different vendors: the key wins
C20_Witness ==
    /\ llm # NoLLM
    /\ llm.options = NoOptions
    /\ PresentSignals = {}
    /\ env["LLM_API_KEY"] = <<"OLLAMA">>
    /\ env["LLM_BASE_URL"] = <<HTTPS, "api.deepseek.com">>
    /\ llm.provider = <<"ollama">>

\* ------------------------------------------------------------------------
\* Properties of think and of the messages of a turn
\* ------------------------------------------------------------------------
\* fragments[1] + fragments[2] + ...
RECURSIVE Concat(_)
Concat(fragments) ==
    IF fragments = <<>> THEN <<>> ELSE Head(fragments) \o Concat(Tail(fragments))

\* C17: think yields the fragments in arrival order and loses none: at every
\* point of a stream, and when it has ended, the concatenation of the
\* yielded fragments is the concatenation of the content deltas received.
C17_YieldedIsReceived ==
    think.pc \in {"streaming", "done"} => Concat(think.yielded) = Concat(think.received)

\* C18: after a pass of the loop in which tool calls were found, the tools
\* are run, and the sequence handed to the next model call (the extra call
\* after the ceiling included) is the sequence of the call before, followed
\* by the assistant message with the stripped response and the user message
\* with the observations of that pass.
C18_NextCallSeesObservations ==
    /\ \A k \in 1..Len(iterLog) : HasTag(iterLog[k].response) => iterLog[k].ranTools
    /\ (pc \in {"invokeLoop", "invokeExtra"} /\ iterLog # <<>>
            /\ iterLog[Len(iterLog)].ranTools) =>
          LET pass == iterLog[Len(iterLog)]
              n == Len(currentMessages)
          IN  /\ n >= 2
              /\ currentMessages[n - 1].role = ASSISTANT
              /\ currentMessages[n] =
                    [role |-> USER, content |-> ObservationContent(pass.toolResults)]
              /\ currentMessages = messages

\* ------------------------------------------------------------------------
\* Properties of the default model and of the keyless providers
\* ------------------------------------------------------------------------
\* C21: when the provider is auto, no model option is passed and
\* LLM_MODEL_ID is not set, the model is the one the hostname table gives
\* for the resolved base URL (the baseUrl option when passed, LLM_BASE_URL
\* otherwise), gpt-3.5-turbo only when that URL matches no entry.
C21_ModelFromResolvedUrl ==
    (llm # NoLLM /\ llm.constructed /\ llm.provider = <<"auto">> /\ ~Truthy(llm.options.model)
        /\ ~Truthy(env["LLM_MODEL_ID"])) =>
            llm.model = ModelOfUrl(Or(llm.baseUrl, <<>>))

\* the providers that need no credentials
KeylessProviders == {<<"ollama">>, <<"vllm">>, <<"local">>}

\* an API key reaches the provider: the option, the provider's own key
\* variable or LLM_API_KEY holds a non-empty value
KeyGiven ==
    \/ Truthy(llm.options.apiKey)
    \/ Truthy(env["LLM_API_KEY"])
    \/ \E i \in 1..Len(VendorVariables) :
          /\ VendorVariables[i] \notin {"OLLAMA_HOST", "VLLM_HOST"}
          /\ VendorOfVariable(VendorVariables[i]) = llm.provider
          /\ Truthy(env[VendorVariables[i]])

\* C22: for the providers ollama, vllm and local the constructor never
\* fails, and without an API key the key is the placeholder named after the
\* provider; for every other provider the constructor fails when no API key
\* is given.
C22_KeylessProvidersConstruct ==
    llm # NoLLM =>
        /\ llm.provider \in KeylessProviders =>
              /\ llm.constructed
              /\ Truthy(llm.apiKey)
              /\ ~KeyGiven => llm.apiKey = llm.provider
        /\ (llm.provider \notin KeylessProviders /\ ~KeyGiven) => ~llm.constructed

\* a local server found by its URL, no key anywhere
C22_Witness ==
    /\ llm # NoLLM
    /\ llm.options = NoOptions
    /\ ~KeyGiven
    /\ llm.provider = <<"local">>
    /\ llm.apiKey = <<"local">>
    /\ llm.constructed

\* ------------------------------------------------------------------------
\* Properties of the key=value and positional forms of the parameters
\* ------------------------------------------------------------------------
\* the map holds key with the string value
Holds(dict, key, value) == HasKey(dict, <<key>>) /\ Get(dict, <<key>>) = Str(<<value>>)

\* C23: a text with '=' is split on commas and each segment on its first
\* '=' into a trimmed key and value: k=v gives {k: "v"}, a=1,b=3 gives
\* {a: "1", b: "3"}, and a=b=c gives {a: "b=c"}.
C23_KeyValuePairsStored ==
    (arg # <<>> /\ arg.fn = "parse" /\ ret # <<>>) =>
        /\ arg.parameters = <<"k", EQ, "v">> => Holds(ret[1], "k", "v")
        /\ arg.parameters = <<"a", EQ, "1", COMMA, "b", EQ, "3">> =>
              Holds(ret[1], "a", "1") /\ Holds(ret[1], "b", "3")
        /\ arg.parameters = <<"a", EQ, "b", EQ, "c">> =>
              /\ HasKey(ret[1], <<"a">>)
              /\ Get(ret[1], <<"a">>) = Str(<<"b", EQ, "c">>)

\* C24: coercion returns a map for every input, and an entry declared
\* number or integer whose value is the string abc, which is no numeral,
\* keeps that string as its value.
C24_FailedCoercionKeepsString ==
    (arg # <<>> /\ arg.fn = "convert" /\ ret # <<>>) =>
        /\ Len(ret[1]) = Len(arg.paramDict)
        /\ \A i \in 1..Len(arg.paramDict) :
              (/\ arg.lookup.getter = "array"
               /\ ParamType(arg.lookup.params, arg.paramDict[i].k)
                     \in {<<"number">>, <<"integer">>}
               /\ arg.paramDict[i].v = Str(<<"abc">>)) =>
                    ret[1][i] = arg.paramDict[i]

\* C25: a text that is no JSON object and has no '=' becomes one positional
\* value: the tool search receives it under the key query, a tool outside
\* the table (calc) under the key input.
C25_PositionalValueKey ==
    (arg # <<>> /\ arg.fn = "parse" /\ ret # <<>>
        /\ ~IsJsonObjectText(arg.parameters) /\ ~Includes(arg.parameters, <<EQ>>)) =>
            /\ arg.toolName = <<"search">> =>
                  ret[1] = <<[k |-> QUERY_KEY, v |-> Str(arg.parameters)]>>
            /\ arg.toolName = <<"calc">> =>
                  ret[1] = <<[k |-> <<"input">>, v |-> Str(arg.parameters)]>>

\* the map on which _parseToolParameters tests "action" in paramDict: the
\* converted map of the JSON branch or of the key=value branch
BeforeInference(lookup, parameters) ==
    IF IsJsonObjectText(parameters)
    THEN _convertParameterTypes(lookup, JsonParse(parameters).dict)
    ELSE _convertParameterTypes(lookup,
            IF Includes(parameters, <<COMMA>>) THEN AddPairs(<<>>, Split(parameters, COMMA))
            ELSE AddPair(<<>>, parameters))

\* after is before with the key from replaced by action and to, every other
\* entry kept
Canonical(before, after, action, from, to) ==
    /\ Holds(after, "action", action)
    /\ HasKey(after, to) /\ Get(after, to) = Get(before, from)
    /\ ~HasKey(after, from)
    /\ \A i \in 1..Len(before) :
          before[i].k \notin {from, to, ACTION_KEY} =>
              HasKey(after, before[i].k) /\ Get(after, before[i].k) = before[i].v

\* C26: a map with an action key is returned as it is; a map without one is
\* rewritten for the tools memory and rag: memory with recall gets action
\* search and query, memory with store (and no recall) gets action add and
\* content, rag with search gets action search and query, and the
\* convenience key is removed.
C26_ActionInferredWhenAbsent ==
    (arg # <<>> /\ arg.fn = "parse" /\ ret # <<>>
        /\ (IsJsonObjectText(arg.parameters) \/ Includes(arg.parameters, <<EQ>>))) =>
        LET before == BeforeInference(arg.lookup, arg.parameters)
            after == ret[1]
        IN  /\ HasKey(before, ACTION_KEY) => after = before
            /\ (~HasKey(before, ACTION_KEY) /\ arg.toolName = <<"memory">>) =>
                  /\ HasKey(before, <<"recall">>) =>
                        Canonical(before, after, "search", <<"recall">>, QUERY_KEY)
                  /\ (HasKey(before, <<"store">>) /\ ~HasKey(before, <<"recall">>)) =>
                        Canonical(before, after, "add", <<"store">>, CONTENT_KEY)
            /\ (~HasKey(before, ACTION_KEY) /\ arg.toolName = <<"rag">>
                    /\ HasKey(before, <<"search">>)) =>
                  Canonical(before, after, "search", <<"search">>, QUERY_KEY)

\* the memory tool called with {"recall":"cats"}
C26_Witness ==
    /\ arg # <<>> /\ arg.fn = "parse" /\ ret # <<>>
    /\ arg.toolName = <<"memory">>
    /\ BeforeInference(arg.lookup, arg.parameters) = <<[k |-> <<"recall">>, v |-> Str(<<"cats">>)]>>
    /\ Holds(ret[1], "action", "search")
    /\ Holds(ret[1], "query", "cats")
    /\ Len(ret[1]) = 2

\* ------------------------------------------------------------------------
\* The two classes HelloAgentsLLM compared
\* ------------------------------------------------------------------------
\* C29: under every environment and every set of options the two classes
\* both throw, or both construct with the same provider, API key, base URL
\* and model and hand the same timeout, in milliseconds, to the client.
C29_DraftsResolveAlike ==
    llm # NoLLM =>
        LET core == Constructor("core", env, llm.options)
            unnamed == Constructor("unnamed", env, llm.options)
        IN  /\ core.constructed = unnamed.constructed
            /\ core.constructed =>
                  /\ core.provider = unnamed.provider
                  /\ core.apiKey = unnamed.apiKey
                  /\ core.baseUrl = unnamed.baseUrl
                  /\ core.model = unnamed.model
                  /\ core.clientTimeout = unnamed.clientTimeout

\* ------------------------------------------------------------------------
\* Properties of an agent without a registry
\* ------------------------------------------------------------------------
\* C28: an agent that has no registry has tool calling disabled whatever the
\* flag was; a turn of it that ends has made one model call, has parsed no
\* response and run no tool, returns what the model answered and has
\* appended the user record and the assistant record with that answer.  In
\* every state reached through the constructor, addTool and removeTool,
\* enableToolCalling implies that a registry is present.
C28_NoRegistryNoTools ==
    /\ enableToolCalling => toolRegistry.present
    /\ ~toolRegistry.present =>
          /\ ~hasTools(enableToolCalling, toolRegistry)
          /\ InTurn => pc = "invokeSimple"
          /\ pc = "done" =>
                /\ modelCalls = 1
                /\ iterLog = <<>>
                /\ finalResponse \in Returned(llmDraft)
                /\ _history = historyAtStart \o
                      << Message(messageDraft, USER, inputText),
                         Message(messageDraft, ASSISTANT, finalResponse) >>

\* the second turn of such an agent answers with a text that holds a tag
C28_Witness ==
    /\ ~toolRegistry.present
    /\ pc = "done"
    /\ turns = 2
    /\ finalResponse = PromptExampleSearch
    /\ Len(_history) = 4

\* ------------------------------------------------------------------------
\* Properties of streamRun
\* ------------------------------------------------------------------------
\* C30: while a call of streamRun is under way, and after it failed or its
\* consumer stopped early, the history is what it was before the call; when
\* the stream has been consumed to its end the history has gained the user
\* record and the assistant record whose content is the concatenation of
\* the fragments yielded.
C30_StreamSavedAtEnd ==
    /\ pc \in {"streamAwait", "streaming", "yielded", "returned", "failed"} =>
          _history = historyAtStart
    /\ (pc = "done" /\ think.pc = "done") =>
          _history = historyAtStart \o
              << Message(messageDraft, USER, inputText),
                 Message(messageDraft, ASSISTANT, Concat(think.yielded)) >>

\* a second call whose consumer stopped after two fragments, the first call
\* having run to the end
C30_Witness ==
    /\ pc = "returned"
    /\ Len(think.yielded) = 2
    /\ Len(historyAtStart) = 2
    /\ _history = historyAtStart

\* ------------------------------------------------------------------------
\* Properties of overlapping turns
\* ------------------------------------------------------------------------
\* the history is made of pairs: a user record, then an assistant record
PairsOnly ==
    /\ Len(_history) % 2 = 0
    /\ \A k \in 1..Len(_history) :
          IF k % 2 = 1
          THEN \E input \in InputTexts : _history[k] = Message(messageDraft, USER, input)
          ELSE \E final \in Returned(llmDraft) \cup {<<>>} :
                  _history[k] = Message(messageDraft, ASSISTANT, final)

\* a step that changes the history is the end of one turn, and appends that
\* turn's user record and assistant record, and nothing else
AppendsOwnPair ==
    _history' # _history =>
        /\ pc' = "done"
        /\ _history' = _history \o
              << Message(messageDraft, USER, inputText'),
                 Message(messageDraft, ASSISTANT, finalResponse') >>

\* C27: also when calls of run overlap, every change of the history is one
\* step that appends the user record and the assistant record of the turn
\* that ends in that step, so the history is a sequence of adjacent pairs,
\* each of one turn, in the order in which the turns end.
C27_OverlappingTurnsAppendPairs == []PairsOnly /\ [][AppendsOwnPair]_vars

\* the turn that began first, on an empty history, ends after a turn that
\* began while it was suspended
C27_Witness ==
    /\ pc = "done"
    /\ historyAtStart = <<>>
    /\ Len(_history) = 4
    /\ _history[1] # _history[3]
    /\ _history[3] = Message(messageDraft, USER, inputText)

====
